---------------------------- MODULE Spec2Model ----------------------------
(***************************************************************************)
(* A model of the AVR ground-control GUI: the persistent settings store    *)
(* (app/lib/user_config.py), the bus connection panel                       *)
(* (app/tabs/connection/mqtt.py), the telemetry panel with its module       *)
(* health watchdog (app/tabs/vmc_telemetry.py, app/lib/widgets.py), the     *)
(* autonomy and control panels (app/tabs/autonomy.py,                       *)
(* app/tabs/vmc_control.py), the thermal view and the on-screen joystick    *)
(* (app/tabs/thermal_view_control.py) and the numeric helpers               *)
(* (app/lib/calc.py).                                                       *)
(***************************************************************************)
EXTENDS Integers, Sequences, FiniteSets, TLC

VARIABLES
    \* ---- settings store -------------------------------------------------
    disk,       \* content of settings.json
    last,       \* the last operation of the store and what it returned
    lastset,    \* per key: the value of the most recent set, or NoSet
    stale,      \* the file was rewritten from outside after a store read
    \* ---- bus connection panel -------------------------------------------
    panel,      \* the controls of MQTTConnectionWidget
    stack,      \* UI thread: call frames of the slots being executed
    queue,      \* cross-thread signals waiting for the UI thread
    client,     \* the background network client
    done,       \* the most recently completed call of the bus client
    shown,      \* the states delivered to set_connected_state, newest last
    \* ---- module health watchdog -----------------------------------------
    health,     \* per tracked prefix: StatusLabel icon (TRUE = green)
    topic_timer,\* per tracked prefix: remaining ms of its QTimer, or NoTimer
    qtimers,    \* per tracked prefix: the QTimer objects that are running
    heard,      \* per tracked prefix: a matching message was handled
    since,      \* per tracked prefix: ticks since the last matching message
    dispatched, \* topic handed to the declared handler by the last message
    \* ---- panels ---------------------------------------------------------
    display,    \* telemetry panel: the display fields
    autonomy,   \* autonomy panel: the labels
    control,    \* control panel: the servo labels
    joystick,   \* on-screen joystick: position and grab flag
    thermal,    \* thermal view: range, calibration, render surface
    gamepad,    \* gamepad manager: devices, caches, threads
    calc,       \* the last call of a numeric helper and its result
    events,     \* what the last handler of a panel did, in order
    handler     \* the last handler of a panel and its arguments

vars == <<disk, last, lastset, stale, panel, stack, queue, client, done,
          shown, health, topic_timer, qtimers, heard, since, dispatched,
          display, autonomy, control, joystick, thermal, gamepad, calc,
          events, handler>>

cfgVars == <<disk, last, lastset, stale>>
connVars == <<panel, stack, queue, client, done, shown>>
wdVars == <<health, topic_timer, qtimers, heard, since, dispatched>>
tabVars == <<display, autonomy, control, joystick, thermal, gamepad, calc,
             events, handler>>

(***************************************************************************)
(* Bounds of the model.                                                    *)
(***************************************************************************)
MaxDocKeys == 2      \* keys a settings document holds at most
MaxDepth == 2        \* nested slot invocations on the UI thread
MaxQueue == 2        \* queued cross-thread signals
MaxShown == 2        \* remembered deliveries to set_connected_state
TicksPerSecond == 1  \* resolution of the clock
MaxAbs == 3          \* largest numerator the numeric helpers are tried on
MaxDen == 2          \* largest denominator the numeric helpers are tried on
FramePixels == 2     \* readings of a thermal frame
MaxThreads == 3      \* threads the gamepad manager creates

(***************************************************************************)
(* Python values and JSON values.  A value is a pair <<type, payload>>.    *)
(***************************************************************************)
PyStr(s) == <<"str", s>>
PyInt(i) == <<"int", i>>
PyBool(b) == <<"bool", b>>
PyNone == <<"NoneType", "None">>
PyFloat(s) == <<"float", s>>
PyList(s) == <<"list", s>>

JsString(s) == <<"string", s>>
JsNumber(i) == <<"number", i>>
JsReal(s) == <<"real", s>>
JsLiteral(s) == <<"literal", s>>
JsArray(s) == <<"array", s>>

\* json.dump of one Python value
ToJson(v) ==
    CASE v[1] = "str" -> JsString(v[2])
      [] v[1] = "int" -> JsNumber(v[2])
      [] v[1] = "bool" -> JsLiteral(IF v[2] THEN "true" ELSE "false")
      [] v[1] = "NoneType" -> JsLiteral("null")
      [] v[1] = "float" -> JsReal(v[2])
      [] v[1] = "list" -> JsArray(v[2])

\* json.load of one JSON value
FromJson(j) ==
    CASE j[1] = "string" -> PyStr(j[2])
      [] j[1] = "number" -> PyInt(j[2])
      [] j[1] = "literal" ->
            IF j[2] = "null" THEN PyNone ELSE PyBool(j[2] = "true")
      [] j[1] = "real" -> PyFloat(j[2])
      [] j[1] = "array" -> PyList(j[2])

\* a dict / JSON object as a function from its keys
EmptyDict == [k \in {} |-> PyNone]
Put(d, k, v) == [x \in (DOMAIN d) \cup {k} |-> IF x = k THEN v ELSE d[x]]
Dumps(data) == [k \in DOMAIN data |-> ToJson(data[k])]
Loads(doc) == [k \in DOMAIN doc |-> FromJson(doc[k])]

(***************************************************************************)
(* The settings file.  kind: "absent", "garbage" (not JSON), "scalar"      *)
(* (valid JSON whose top-level value is not an object) or "object".        *)
(***************************************************************************)
Absent == [kind |-> "absent", doc |-> EmptyDict]
Garbage == [kind |-> "garbage", doc |-> EmptyDict]
Scalar == [kind |-> "scalar", doc |-> EmptyDict]
Object(doc) == [kind |-> "object", doc |-> doc]

(***************************************************************************)
(* The settings of _UserConfig: the key, the type hint and the default     *)
(* each property hands to __get, and the type its annotation declares.     *)
(***************************************************************************)
RootLogs == "<root>/logs"

Keys == {"mqtt_host", "mqtt_port", "serial_port", "serial_baud_rate",
         "log_file_directory", "force_color_mode", "joystick_inverted",
         "gamepad_guid", "gamepad_x_axis", "gamepad_x_axis_inverted",
         "gamepad_y_axis", "gamepad_y_axis_inverted"}

\* the type_hint argument of __get
TypeHint(k) ==
    CASE k \in {"mqtt_host", "serial_port", "log_file_directory",
                "gamepad_guid"} -> "str"
      [] k \in {"mqtt_port", "serial_baud_rate", "gamepad_x_axis",
                "gamepad_y_axis"} -> "int"
      [] k \in {"gamepad_x_axis_inverted", "gamepad_y_axis_inverted"} -> "int"
      [] k = "joystick_inverted" -> "bool"
      [] k = "force_color_mode" -> "literal"

\* the default argument of __get
Default(k) ==
    CASE k \in {"mqtt_host", "serial_port", "gamepad_guid"} -> PyStr("")
      [] k = "mqtt_port" -> PyInt(18830)
      [] k = "serial_baud_rate" -> PyInt(115200)
      [] k = "log_file_directory" -> PyStr(RootLogs)
      [] k = "force_color_mode" -> PyNone
      [] k = "joystick_inverted" -> PyBool(FALSE)
      [] k = "gamepad_x_axis" -> PyInt(0)
      [] k = "gamepad_y_axis" -> PyInt(1)
      [] k \in {"gamepad_x_axis_inverted", "gamepad_y_axis_inverted"} ->
            PyInt(0)

\* the return annotation of the property (and the argument annotation of
\* its setter)
Annotation(k) ==
    CASE k \in {"mqtt_host", "serial_port", "log_file_directory",
                "gamepad_guid"} -> "str"
      [] k \in {"mqtt_port", "serial_baud_rate", "gamepad_x_axis",
                "gamepad_y_axis"} -> "int"
      [] k \in {"joystick_inverted", "gamepad_x_axis_inverted",
                "gamepad_y_axis_inverted"} -> "bool"
      [] k = "force_color_mode" -> "literal"

ColorModes == {PyStr("dark"), PyStr("light"), PyNone}

\* typeguard.check_type(key, value, type_hint) does not raise TypeError.
\* isinstance semantics: a bool is an instance of int.
CheckType(v, hint) ==
    CASE hint = "str" -> v[1] = "str"
      [] hint = "int" -> v[1] \in {"int", "bool"}
      [] hint = "bool" -> v[1] = "bool"
      [] hint = "literal" -> v \in ColorModes

\* __read: the dict that was read, and the file afterwards
Read(d) ==
    IF d.kind = "absent" THEN [data |-> EmptyDict, disk |-> Absent]
    ELSE IF d.kind = "object" THEN [data |-> Loads(d.doc), disk |-> d]
    ELSE [data |-> EmptyDict, disk |-> Absent]

\* __write
Write(data) == Object(Dumps(data))

\* __set without "data[key] = value"
SetFile_NoMerge(d, key, value) == Write(Read(d).data)

\* __set that writes a document holding the key alone
SetFile_OnlyKey(d, key, value) == Write(Put(EmptyDict, key, value))

\* __set: the file afterwards
SetFile(d, key, value) == Write(Put(Read(d).data, key, value))

NoSet == <<"unset", "unset">>

\* __get that returns the default without writing it out
GetFile_NoWriteBack(d, key, type_hint, default) ==
    LET r == Read(d)
        present == key \in DOMAIN r.data
    IN  IF present /\ CheckType(r.data[key], type_hint)
        THEN [value |-> r.data[key], disk |-> r.disk, path |-> "hit",
              had |-> r.data[key]]
        ELSE [value |-> default, disk |-> r.disk,
              path |-> IF present THEN "mismatch" ELSE "missing",
              had |-> IF present THEN r.data[key] ELSE NoSet]

\* __get: the value returned, the file afterwards, the branch taken and
\* the value the file held under the key
GetFile(d, key, type_hint, default) ==
    LET r == Read(d)
        present == key \in DOMAIN r.data
    IN  IF present /\ CheckType(r.data[key], type_hint)
        THEN [value |-> r.data[key], disk |-> r.disk, path |-> "hit",
              had |-> r.data[key]]
        ELSE [value |-> default,
              disk |-> IF default # PyNone
                       THEN SetFile(r.disk, key, default)
                       ELSE r.disk,
              path |-> IF present THEN "mismatch" ELSE "missing",
              had |-> IF present THEN r.data[key] ELSE NoSet]

\* the property getter and setter of a key
PropertyGet(d, k) == GetFile(d, k, TypeHint(k), Default(k))
PropertySet(d, k, v) == SetFile(d, k, v)

(***************************************************************************)
(* Inputs of the settings store.                                           *)
(***************************************************************************)
\* values a caller passes to the setter of k (values of the annotated type)
SetValues(k) ==
    CASE Annotation(k) = "str" -> {PyStr(""), PyStr("abcde")}
      [] Annotation(k) = "int" -> {PyInt(0), PyInt(5)}
      [] Annotation(k) = "bool" -> {PyBool(TRUE), PyBool(FALSE)}
      [] Annotation(k) = "literal" -> ColorModes

\* JSON values somebody else may have put under a key
JsonSamples == {JsString("abcde"), JsNumber(5), JsLiteral("true"),
                JsLiteral("null"), JsReal("1.5")}

\* keys somebody else writes: one of each kind of property
ExternalKeys == {"mqtt_host", "mqtt_port", "joystick_inverted",
                 "gamepad_x_axis_inverted", "force_color_mode"}

\* contents the file may be given from outside the store
ExternalContents ==
    {Absent, Garbage, Scalar, Object(Dumps(EmptyDict))}
    \cup {Object([x \in {k} |-> j]) : k \in ExternalKeys, j \in JsonSamples}

NoOp == [op |-> "none", key |-> "", value |-> PyNone, path |-> "none",
         found |-> "absent", had |-> NoSet, stale |-> FALSE]

Fits(d) == Cardinality(DOMAIN d.doc) <= MaxDocKeys

(***************************************************************************)
(* Operations of the settings store.                                       *)
(***************************************************************************)
Get(k) ==
    LET r == PropertyGet(disk, k) IN
    /\ Fits(r.disk)
    /\ disk' = r.disk
    /\ last' = [op |-> "get", key |-> k, value |-> r.value, path |-> r.path,
                found |-> disk.kind, had |-> r.had, stale |-> stale]
    /\ stale' = FALSE
    /\ UNCHANGED <<lastset, connVars, wdVars, tabVars>>

Set(k, v) ==
    LET d == PropertySet(disk, k, v) IN
    /\ Fits(d)
    /\ disk' = d
    /\ last' = [op |-> "set", key |-> k, value |-> v, path |-> "none",
                found |-> disk.kind, had |-> NoSet, stale |-> stale]
    /\ lastset' = IF disk.kind = "object"
                  THEN [lastset EXCEPT ![k] = v]
                  ELSE [x \in Keys |-> IF x = k THEN v ELSE NoSet]
    /\ stale' = FALSE
    /\ UNCHANGED <<connVars, wdVars, tabVars>>

\* the file is replaced from outside the store (as the tests do with
\* set_config_file_contents)
ExternalWrite(c) ==
    /\ c # disk
    /\ disk' = c
    /\ lastset' = [x \in Keys |-> NoSet]
    /\ stale' = (last.op # "none")
    /\ UNCHANGED <<last, connVars, wdVars, tabVars>>

(***************************************************************************)
(* The bus connection panel.                                               *)
(***************************************************************************)
ConnectionState ==
    {"disconnected", "connecting", "connected", "disconnecting", "failure"}

\* ConnectionState.name.title()
Title(s) ==
    CASE s = "disconnected" -> "Disconnected"
      [] s = "connecting" -> "Connecting"
      [] s = "connected" -> "Connected"
      [] s = "disconnecting" -> "Disconnecting"
      [] s = "failure" -> "Failure"

\* int(text) of a text of decimal digits; the empty text raises ValueError
RECURSIVE IntOf(_)
IntOf(t) == IF t = <<>> THEN 0
            ELSE 10 * IntOf(SubSeq(t, 1, Len(t) - 1)) + t[Len(t)]
CanParse(t) == t # <<>>

\* str(n) of a non-negative integer, as its decimal digits
RECURSIVE StrOf(_)
StrOf(n) == IF n < 10 THEN <<n>> ELSE Append(StrOf(n \div 10), n % 10)

\* texts the operator types into the host and the port field
HostTexts == {"", "vmc"}
PortTexts == {<<>>, <<1, 8, 8, 3>>}

\* set_connected_state with setEnabled in place of setDisabled
SetConnectedState_Swapped(p, connection_state) ==
    LET connected == connection_state = "connected"
        disconnected == connection_state \in {"failure", "disconnected"}
    IN  [p EXCEPT !.state = connection_state,
                  !.state_label = Title(connection_state),
                  !.disconnect_enabled = connected,
                  !.connect_enabled = connected,
                  !.host_readonly = ~disconnected,
                  !.port_readonly = ~disconnected]

\* set_connected_state up to the call of processEvents
SetConnectedState(p, connection_state) ==
    LET connected == connection_state = "connected"
        disconnected == connection_state \in {"failure", "disconnected"}
    IN  [p EXCEPT !.state = connection_state,
                  !.state_label = Title(connection_state),
                  !.disconnect_enabled = connected,
                  !.connect_enabled = ~connected,
                  !.host_readonly = ~disconnected,
                  !.port_readonly = ~disconnected]

Remember(log, s) ==
    IF Len(log) < MaxShown THEN Append(log, s)
    ELSE Append(SubSeq(log, 2, Len(log)), s)

\* MQTTConnectionWidget.build on the settings file d
Build(d) ==
    LET h == PropertyGet(d, "mqtt_host")
        q == PropertyGet(h.disk, "mqtt_port")
        blank == [state |-> "disconnected", state_label |-> "",
                  connect_enabled |-> TRUE, disconnect_enabled |-> TRUE,
                  host_readonly |-> FALSE, port_readonly |-> FALSE,
                  host_text |-> "", port_text |-> <<>>]
        p == SetConnectedState(blank, "disconnected")
    IN  [panel |-> [p EXCEPT !.host_text = h.value[2],
                             !.port_text = StrOf(q.value[2])],
         disk |-> q.disk]

NoCall == [op |-> "none", pc |-> "final", host |-> "", port |-> 0,
           trace |-> <<>>]
Frame(op, pc, host, port, trace) ==
    [op |-> op, pc |-> pc, host |-> host, port |-> port, trace |-> trace]

Top == stack[Len(stack)]
Pop == SubSeq(stack, 1, Len(stack) - 1)
ReplaceTop(f) == [stack EXCEPT ![Len(stack)] = f]

\* The UI thread takes the next event either in its event loop (no slot
\* is running) or inside the processEvents call that ends
\* set_connected_state.
CanDispatch == Len(stack) < MaxDepth

\* signal connection_state of the client, emitted on the UI thread: the
\* slot set_connected_state runs at once
Emit(s) ==
    /\ panel' = SetConnectedState(panel, s)
    /\ shown' = Remember(shown, s)

\* connect2 without the check for an empty host
ClickConnect_NoHostCheck ==
    /\ CanDispatch
    /\ panel.connect_enabled
    /\ CanParse(panel.port_text)
    /\ Emit("connecting")
    /\ stack' = Append(stack, Frame("connect2", "connecting",
                                    panel.host_text, IntOf(panel.port_text),
                                    <<"connecting">>))
    /\ UNCHANGED <<done, queue, client, cfgVars, wdVars, tabVars>>

\* "Connect" clicked, or return pressed in the host field:
\* connect2(host field, int(port field)) up to the first processEvents
ClickConnect ==
    /\ CanDispatch
    /\ panel.connect_enabled
    /\ CanParse(panel.port_text)
    /\ LET host == panel.host_text
           port == IntOf(panel.port_text)
       IN  IF host = ""
           THEN /\ done' = Frame("connect2", "final", host, port, <<>>)
                /\ UNCHANGED <<panel, shown, stack>>
           ELSE /\ Emit("connecting")
                /\ stack' = Append(stack, Frame("connect2", "connecting",
                                                host, port, <<"connecting">>))
                /\ UNCHANGED done
    /\ UNCHANGED <<queue, client, cfgVars, wdVars, tabVars>>

\* connect2 that saves host and port before it starts the client
ConnectRun_SavesFirst(ok) ==
    /\ stack # <<>>
    /\ Top.op = "connect2" /\ Top.pc = "connecting"
    /\ disk' = PropertySet(PropertySet(disk, "mqtt_host", PyStr(Top.host)),
                           "mqtt_port", PyInt(Top.port))
    /\ IF ok
       THEN /\ client' = [running |-> TRUE]
            /\ Emit("connected")
            /\ stack' = ReplaceTop([Top EXCEPT !.pc = "final",
                   !.trace = @ \o <<"start", "save", "connected">>])
       ELSE /\ UNCHANGED client
            /\ Emit("failure")
            /\ stack' = ReplaceTop([Top EXCEPT !.pc = "final",
                   !.trace = @ \o <<"start raised", "failure">>])
    /\ UNCHANGED <<queue, done, last, lastset, stale, wdVars, tabVars>>

\* connect2 from the return of the first processEvents to the second one
ConnectRun(ok) ==
    /\ stack # <<>>
    /\ Top.op = "connect2" /\ Top.pc = "connecting"
    /\ IF ok
       THEN /\ client' = [running |-> TRUE]
            /\ disk' = PropertySet(PropertySet(disk, "mqtt_host",
                                               PyStr(Top.host)),
                                   "mqtt_port", PyInt(Top.port))
            /\ Emit("connected")
            /\ stack' = ReplaceTop([Top EXCEPT !.pc = "final",
                   !.trace = @ \o <<"start", "save", "connected">>])
       ELSE /\ UNCHANGED <<client, disk>>
            /\ Emit("failure")
            /\ stack' = ReplaceTop([Top EXCEPT !.pc = "final",
                   !.trace = @ \o <<"start raised", "failure">>])
    /\ UNCHANGED <<queue, done, last, lastset, stale, wdVars, tabVars>>

\* "Disconnect" clicked: stop up to the first processEvents
ClickDisconnect ==
    /\ CanDispatch
    /\ panel.disconnect_enabled
    /\ Emit("disconnecting")
    /\ stack' = Append(stack, Frame("stop", "disconnecting", "", 0,
                                    <<"disconnecting">>))
    /\ UNCHANGED <<queue, client, done, cfgVars, wdVars, tabVars>>

\* stop from the return of the first processEvents to the second one.
\* The client library ends the session; the network thread of a running
\* client may call on_disconnect before it is joined.
StopRun(callback) ==
    /\ stack # <<>>
    /\ Top.op = "stop" /\ Top.pc = "disconnecting"
    /\ client' = [running |-> FALSE]
    /\ queue' = IF callback /\ client.running /\ Len(queue) < MaxQueue
                THEN Append(queue, "disconnected") ELSE queue
    /\ Emit("disconnected")
    /\ stack' = ReplaceTop([Top EXCEPT !.pc = "final",
           !.trace = @ \o <<"stop client", "disconnected">>])
    /\ UNCHANGED <<done, cfgVars, wdVars, tabVars>>

\* the call returns to the one that dispatched it
Return ==
    /\ stack # <<>>
    /\ Top.pc = "final"
    /\ stack' = Pop
    /\ done' = IF Top.op = "deliver" THEN done ELSE Top
    /\ UNCHANGED <<panel, shown, queue, client, cfgVars, wdVars, tabVars>>

\* on_disconnect that emits disconnecting
OnDisconnect_EmitsDisconnecting ==
    /\ client.running
    /\ Len(queue) < MaxQueue
    /\ queue' = Append(queue, "disconnecting")
    /\ UNCHANGED <<panel, shown, stack, client, done, cfgVars, wdVars,
                   tabVars>>

\* on_disconnect on the network thread of a running client (the link went
\* down): the signal is queued for the UI thread
OnDisconnect ==
    /\ client.running
    /\ Len(queue) < MaxQueue
    /\ queue' = Append(queue, "disconnected")
    /\ UNCHANGED <<panel, shown, stack, client, done, cfgVars, wdVars,
                   tabVars>>

\* the UI thread delivers a queued signal to set_connected_state
Deliver ==
    /\ CanDispatch
    /\ queue # <<>>
    /\ Emit(Head(queue))
    /\ queue' = Tail(queue)
    /\ stack' = Append(stack, Frame("deliver", "final", "", 0,
                                    <<Head(queue)>>))
    /\ UNCHANGED <<client, done, cfgVars, wdVars, tabVars>>

\* the operator edits the host or the port field
EditHost(h) ==
    /\ CanDispatch
    /\ ~panel.host_readonly
    /\ h # panel.host_text
    /\ panel' = [panel EXCEPT !.host_text = h]
    /\ UNCHANGED <<shown, stack, queue, client, done, cfgVars, wdVars,
                   tabVars>>

EditPort(t) ==
    /\ CanDispatch
    /\ ~panel.port_readonly
    /\ t # panel.port_text
    /\ panel' = [panel EXCEPT !.port_text = t]
    /\ UNCHANGED <<shown, stack, queue, client, done, cfgVars, wdVars,
                   tabVars>>

(***************************************************************************)
(* Numbers.  A number is a fraction <<numerator, denominator>> in lowest   *)
(* terms with a positive denominator; its arithmetic is exact.  The pair   *)
(* <<0, 0>> stands for the ZeroDivisionError a division raises.            *)
(***************************************************************************)
Abs(n) == IF n < 0 THEN -n ELSE n

RECURSIVE GCD(_, _)
GCD(a, b) == IF b = 0 THEN a ELSE GCD(b, a % b)

Frac(n, d) ==
    LET g == GCD(Abs(n), Abs(d))
        s == IF d < 0 THEN -1 ELSE 1
    IN  <<(s * n) \div g, (s * d) \div g>>

Num(i) == <<i, 1>>

Lt(a, b) == a[1] * b[2] < b[1] * a[2]
Le(a, b) == a[1] * b[2] <= b[1] * a[2]
Add(a, b) == Frac(a[1] * b[2] + b[1] * a[2], a[2] * b[2])
Sub(a, b) == Frac(a[1] * b[2] - b[1] * a[2], a[2] * b[2])
Mul(a, b) == Frac(a[1] * b[1], a[2] * b[2])

ZeroDivisionError == <<0, 0>>

\* a / b
TrueDiv(a, b) ==
    IF b[1] = 0 THEN ZeroDivisionError ELSE Frac(a[1] * b[2], a[2] * b[1])

\* min(a, b) and max(a, b): the first argument unless the second one is
\* smaller (larger)
PyMin(a, b) == IF Lt(b, a) THEN b ELSE a
PyMax(a, b) == IF Lt(a, b) THEN b ELSE a

\* int(a): truncation towards zero
Trunc(a) == IF a[1] >= 0 THEN a[1] \div a[2] ELSE -((-a[1]) \div a[2])

\* round(a): the nearest integer, a tie goes to the even one
Round(a) ==
    LET f == a[1] \div a[2]
        twice == 2 * (a[1] - f * a[2])
    IN  IF twice < a[2] THEN f
        ELSE IF twice > a[2] THEN f + 1
        ELSE IF f % 2 = 0 THEN f ELSE f + 1

(***************************************************************************)
(* The numeric helpers of app/lib/calc.py.                                 *)
(***************************************************************************)
\* constrain with min and max exchanged
constrain_MinMaxSwapped(value, min_value, max_value) ==
    PyMax(max_value, PyMin(min_value, value))

constrain(value, min_value, max_value) ==
    PyMin(max_value, PyMax(min_value, value))

normalize_value(value, min_value, max_value) ==
    LET bounded == constrain(value, min_value, max_value)
        value_range == Sub(max_value, min_value)
        relative_value == Sub(bounded, min_value)
    IN  TrueDiv(relative_value, value_range)

\* map_value that leaves out_min out of the sum
map_value_NoOffset(value, in_min, in_max, out_min, out_max) ==
    LET input_norm == normalize_value(value, in_min, in_max)
    IN  IF input_norm = ZeroDivisionError THEN ZeroDivisionError
        ELSE Mul(Sub(out_max, out_min), input_norm)

map_value(value, in_min, in_max, out_min, out_max) ==
    LET input_norm == normalize_value(value, in_min, in_max)
    IN  IF input_norm = ZeroDivisionError THEN ZeroDivisionError
        ELSE Add(out_min, Mul(Sub(out_max, out_min), input_norm))

\* the numbers the helpers are called with
CalcNums == {Frac(n, d) : n \in -MaxAbs..MaxAbs, d \in 1..MaxDen}
CalcOuts == {Num(n) : n \in -1..MaxAbs}

NoCalc == [fn |-> "none", args |-> <<>>, result |-> Num(0), again |-> Num(0)]

\* one call of constrain with the first three of the arguments drawn, and
\* constrain applied to its result once more
CallConstrain ==
    LET value == calc.args[1]
        min_value == calc.args[2]
        max_value == calc.args[3]
        r == constrain(value, min_value, max_value)
    IN  /\ calc.fn = "none" /\ calc.args # <<>>
        /\ calc' = [calc EXCEPT !.fn = "constrain", !.result = r,
                                !.again = constrain(r, min_value, max_value)]
        /\ UNCHANGED <<cfgVars, connVars, wdVars, display, autonomy, control,
                       joystick, thermal, events, handler, gamepad>>

CallNormalizeValue ==
    LET r == normalize_value(calc.args[1], calc.args[2], calc.args[3])
    IN  /\ calc.fn = "none" /\ calc.args # <<>>
        /\ calc' = [calc EXCEPT !.fn = "normalize_value", !.result = r,
                                !.again = r]
        /\ UNCHANGED <<cfgVars, connVars, wdVars, display, autonomy, control,
                       joystick, thermal, events, handler, gamepad>>

CallMapValue ==
    LET r == map_value(calc.args[1], calc.args[2], calc.args[3],
                       calc.args[4], calc.args[5])
    IN  /\ calc.fn = "none" /\ calc.args # <<>>
        /\ calc' = [calc EXCEPT !.fn = "map_value", !.result = r,
                                !.again = r]
        /\ UNCHANGED <<cfgVars, connVars, wdVars, display, autonomy, control,
                       joystick, thermal, events, handler, gamepad>>

(***************************************************************************)
(* Texts and colours of the panels.                                        *)
(***************************************************************************)
RED_COLOR == "#ff0000"
GREEN_COLOR == "#00ff00"
BLUE_COLOR == "#0000ff"
DARK_GOLDEN_ROD_COLOR == "#b8860b"
CHOCOLATE_COLOR == "#d2691e"

\* Color.hex: the three-digit form when every channel repeats its digit
Hex(color) ==
    CASE color = RED_COLOR -> "#f00"
      [] color = GREEN_COLOR -> "#0f0"
      [] color = BLUE_COLOR -> "#00f"
      [] OTHER -> color

wrap_text(text, color) ==
    <<"<span style='color:", Hex(color), ";'>", text, "</span>">>

\* the empty text; every other text is a non-empty tuple of its parts
Blank == <<>>

\* str(x) of a number
Str(x) == <<"str", x>>

\* round(x, digits) for digits = 4
Round4(x) == Frac(Round(Mul(x, Num(10000))), 10000)

(***************************************************************************)
(* The display fields of the telemetry panel.                              *)
(***************************************************************************)
\* the fields as build creates them
NewDisplay ==
    [satellites_label |-> Blank,
     battery_percent_bar |-> 0, battery_chunk |-> Blank,
     battery_voltage_label |-> Blank,
     armed_label |-> Blank, flight_mode_label |-> Blank,
     loc_x_line_edit |-> Blank, loc_y_line_edit |-> Blank, loc_z_line_edit |-> Blank,
     loc_lat_line_edit |-> Blank, loc_lon_line_edit |-> Blank,
     loc_alt_line_edit |-> Blank,
     att_r_line_edit |-> Blank, att_p_line_edit |-> Blank, att_y_line_edit |-> Blank]

update_gps_info(d, payload) ==
    [d EXCEPT !.satellites_label =
        <<payload.visible_satellites, " visible, ", payload.fix_type>>]

update_battery(d, payload) ==
    LET soc == constrain(payload.state_of_charge, Num(0), Num(100))
        color == <<"smear", normalize_value(soc, Num(0), Num(100))>>
    IN  [d EXCEPT !.battery_percent_bar = Trunc(soc),
                  !.battery_voltage_label =
                      <<Round4(payload.voltage), " Volts">>,
                  !.battery_chunk = color]

update_flight_mode(d, payload) ==
    [d EXCEPT !.flight_mode_label = <<payload.flight_mode>>]

update_armed(d, payload) ==
    [d EXCEPT !.armed_label =
        IF payload.armed
        THEN wrap_text("Armed (and dangerous)", RED_COLOR)
        ELSE wrap_text("Disarmed", DARK_GOLDEN_ROD_COLOR)]

update_local_location(d, payload) ==
    [d EXCEPT !.loc_x_line_edit = Str(payload.n),
              !.loc_y_line_edit = Str(payload.e),
              !.loc_z_line_edit = Str(payload.d)]

update_global_location(d, payload) ==
    [d EXCEPT !.loc_lat_line_edit = Str(payload.lat),
              !.loc_lon_line_edit = Str(payload.lon),
              !.loc_alt_line_edit = Str(payload.alt)]

update_euler_attitude(d, payload) ==
    [d EXCEPT !.att_r_line_edit = Str(payload.roll),
              !.att_p_line_edit = Str(payload.pitch),
              !.att_y_line_edit = Str(payload.yaw)]

\* VMCTelemetryWidget.clear
ClearDisplay(d) ==
    [d EXCEPT !.battery_percent_bar = 0,
              !.battery_voltage_label = Blank,
              !.armed_label = Blank, !.flight_mode_label = Blank,
              !.loc_x_line_edit = Blank, !.loc_y_line_edit = Blank,
              !.loc_z_line_edit = Blank,
              !.loc_lat_line_edit = Blank, !.loc_lon_line_edit = Blank,
              !.loc_alt_line_edit = Blank,
              !.att_r_line_edit = Blank, !.att_p_line_edit = Blank,
              !.att_y_line_edit = Blank]

(***************************************************************************)
(* What a handler of a panel does, in order: publish is send_message,      *)
(* setText is the update of a label.  A handler works on a pair of the     *)
(* labels and the events so far.                                           *)
(***************************************************************************)
Publish(topic, payload) == <<"publish", topic, payload>>
SetText(i, text) == <<"setText", i, text>>
NoPayloadArg == <<>>

(***************************************************************************)
(* The autonomy panel.                                                     *)
(***************************************************************************)
number_of_buildings == 6
Buildings == 0..(number_of_buildings - 1)

\* the labels as build creates them
NewAutonomy == [autonomous_label |-> Blank,
                building_labels |-> [i \in Buildings |-> Blank]]

\* enable_building_drop that updates the label of the next building
enable_building_drop_WrongLabel(st, number) ==
    LET text == wrap_text("Drop Enabled", GREEN_COLOR)
        other == (number + 1) % number_of_buildings
    IN  [labels |-> [st.labels EXCEPT ![other] = text],
         events |-> st.events \o
            <<Publish("avr/autonomous/building/enable",
                      <<"building", number>>),
              SetText(other, text)>>]

enable_building_drop(st, number) ==
    LET text == wrap_text("Drop Enabled", GREEN_COLOR)
    IN  [labels |-> [st.labels EXCEPT ![number] = text],
         events |-> st.events \o
            <<Publish("avr/autonomous/building/enable",
                      <<"building", number>>),
              SetText(number, text)>>]

disable_building_drop(st, number) ==
    LET text == wrap_text("Drop Disabled", RED_COLOR)
    IN  [labels |-> [st.labels EXCEPT ![number] = text],
         events |-> st.events \o
            <<Publish("avr/autonomous/building/disable",
                      <<"building", number>>),
              SetText(number, text)>>]

\* enable_building_drop_all that sends the messages of all buildings
\* before it updates the labels
enable_building_drop_all_PublishFirst(st, i) ==
    LET text == wrap_text("Drop Enabled", GREEN_COLOR)
        rest == {n \in Buildings : n >= i}
        first == number_of_buildings - Cardinality(rest)
    IN  [labels |-> [n \in Buildings |->
                        IF n \in rest THEN text ELSE st.labels[n]],
         events |-> st.events \o
            [k \in 1..Cardinality(rest) |->
                Publish("avr/autonomous/building/enable",
                        <<"building", first + k - 1>>)] \o
            [k \in 1..Cardinality(rest) |-> SetText(first + k - 1, text)]]

\* for i in range(number_of_buildings): enable_building_drop(i), from i on
RECURSIVE enable_building_drop_all(_, _)
enable_building_drop_all(st, i) ==
    IF i >= number_of_buildings THEN st
    ELSE enable_building_drop_all(enable_building_drop(st, i), i + 1)

RECURSIVE disable_building_drop_all(_, _)
disable_building_drop_all(st, i) ==
    IF i >= number_of_buildings THEN st
    ELSE disable_building_drop_all(disable_building_drop(st, i), i + 1)

\* a handler starts with the labels of the panel and no events
BuildingsNow == [labels |-> autonomy.building_labels, events |-> <<>>]

\* the handler ran to its end with the outcome st
AutonomyDone(st, name) ==
    /\ autonomy' = [autonomy EXCEPT !.building_labels = st.labels]
    /\ events' = st.events
    /\ handler' = name
    /\ UNCHANGED <<cfgVars, connVars, wdVars, display, control, joystick,
                   thermal, calc, gamepad>>

\* "Enable Drop" of building number clicked
EnableBuildingDrop(number) ==
    AutonomyDone(enable_building_drop(BuildingsNow, number),
                 <<"enable_building_drop", number>>)

\* "Disable Drop" of building number clicked
DisableBuildingDrop(number) ==
    AutonomyDone(disable_building_drop(BuildingsNow, number),
                 <<"disable_building_drop", number>>)

\* "Enable All Drops" clicked
EnableBuildingDropAll ==
    AutonomyDone(enable_building_drop_all(BuildingsNow, 0),
                 <<"enable_building_drop_all">>)

\* "Disable All Drops" clicked
DisableBuildingDropAll ==
    AutonomyDone(disable_building_drop_all(BuildingsNow, 0),
                 <<"disable_building_drop_all">>)

\* autonomous mode "Enable" clicked
EnableAutonomous ==
    LET text == wrap_text("Autonomous Enabled", GREEN_COLOR) IN
    /\ autonomy' = [autonomy EXCEPT !.autonomous_label = text]
    /\ events' = <<Publish("avr/autonomous/enable", NoPayloadArg),
                   SetText(-1, text)>>
    /\ handler' = <<"enable_autonomous">>
    /\ UNCHANGED <<cfgVars, connVars, wdVars, display, control, joystick,
                   thermal, calc, gamepad>>

\* autonomous mode "Disable" clicked
DisableAutonomous ==
    LET text == wrap_text("Autonomous Disabled", RED_COLOR) IN
    /\ autonomy' = [autonomy EXCEPT !.autonomous_label = text]
    /\ events' = <<Publish("avr/autonomous/disable", NoPayloadArg),
                   SetText(-1, text)>>
    /\ handler' = <<"disable_autonomous">>
    /\ UNCHANGED <<cfgVars, connVars, wdVars, display, control, joystick,
                   thermal, calc, gamepad>>

(***************************************************************************)
(* The servos of the control panel.                                        *)
(***************************************************************************)
number_of_servos == 4
Servos == 0..(number_of_servos - 1)

NewControl == [servo_labels |-> [i \in Servos |-> Blank]]

\* open_servo that publishes on the topic of close_servo
open_servo_WrongTopic(st, number) ==
    LET text == wrap_text("Opened", BLUE_COLOR)
    IN  [labels |-> [st.labels EXCEPT ![number] = text],
         events |-> st.events \o
            <<Publish("avr/pcm/servo/close", <<"servo", number>>),
              SetText(number, text)>>]

open_servo(st, number) ==
    LET text == wrap_text("Opened", BLUE_COLOR)
    IN  [labels |-> [st.labels EXCEPT ![number] = text],
         events |-> st.events \o
            <<Publish("avr/pcm/servo/open", <<"servo", number>>),
              SetText(number, text)>>]

close_servo(st, number) ==
    LET text == wrap_text("Closed", CHOCOLATE_COLOR)
    IN  [labels |-> [st.labels EXCEPT ![number] = text],
         events |-> st.events \o
            <<Publish("avr/pcm/servo/close", <<"servo", number>>),
              SetText(number, text)>>]

\* for i in range(number_of_servos): open_servo(i), from i on
RECURSIVE open_servo_all(_, _)
open_servo_all(st, i) ==
    IF i >= number_of_servos THEN st
    ELSE open_servo_all(open_servo(st, i), i + 1)

RECURSIVE close_servo_all(_, _)
close_servo_all(st, i) ==
    IF i >= number_of_servos THEN st
    ELSE close_servo_all(close_servo(st, i), i + 1)

ServosNow == [labels |-> control.servo_labels, events |-> <<>>]

ControlDone(st, name) ==
    /\ control' = [control EXCEPT !.servo_labels = st.labels]
    /\ events' = st.events
    /\ handler' = name
    /\ UNCHANGED <<cfgVars, connVars, wdVars, display, autonomy, joystick,
                   thermal, calc, gamepad>>

\* "Open" of servo number clicked
OpenServo(number) ==
    ControlDone(open_servo(ServosNow, number), <<"open_servo", number>>)

\* "Close" of servo number clicked
CloseServo(number) ==
    ControlDone(close_servo(ServosNow, number), <<"close_servo", number>>)

\* "Open all" clicked
OpenServoAll ==
    ControlDone(open_servo_all(ServosNow, 0), <<"open_servo_all">>)

\* "Close all" clicked
CloseServoAll ==
    ControlDone(close_servo_all(ServosNow, 0), <<"close_servo_all">>)

\* the wrgb tuples of the LED buttons "Red", "Green", "Blue" and "Clear"
LedColors == {<<255, 255, 0, 0>>, <<255, 0, 255, 0>>, <<255, 0, 0, 255>>,
              <<0, 0, 0, 0>>}

\* set_led: a LED button clicked
SetLed(color) ==
    /\ events' = <<Publish("avr/pcm/color/set", <<"wrgb", color>>)>>
    /\ handler' = <<"set_led", color>>
    /\ UNCHANGED <<cfgVars, connVars, wdVars, display, autonomy, control,
                   joystick, thermal, calc, gamepad>>

(***************************************************************************)
(* The on-screen joystick.  Mouse positions are integer points <<x, y>>,   *)
(* the relative position of the handle is a point of numbers.              *)
(***************************************************************************)
BOUNDING_BOX_WIDTH == 200
BOUNDING_BOX_HEIGHT == 200
JOYSTICK_RADIUS == 20
SERVO_ABS_MAX == 2200
SERVO_ABS_MIN == 700

\* round(BOUNDING_BOX_WIDTH * 1.5), the fixed size of the widget
WIDTH == Round(Mul(Num(BOUNDING_BOX_WIDTH), Frac(3, 2)))
HEIGHT == Round(Mul(Num(BOUNDING_BOX_HEIGHT), Frac(3, 2)))

\* _center
Center == <<TrueDiv(Num(WIDTH), Num(2)), TrueDiv(Num(HEIGHT), Num(2))>>

BOUNDING_BOX_MIN_X ==
    Trunc(Sub(Center[1], TrueDiv(Num(BOUNDING_BOX_WIDTH), Num(2))))
BOUNDING_BOX_MAX_X ==
    Trunc(Add(Center[1], TrueDiv(Num(BOUNDING_BOX_WIDTH), Num(2))))
BOUNDING_BOX_MIN_Y ==
    Trunc(Sub(Center[2], TrueDiv(Num(BOUNDING_BOX_HEIGHT), Num(2))))
BOUNDING_BOX_MAX_Y ==
    Trunc(Add(Center[2], TrueDiv(Num(BOUNDING_BOX_HEIGHT), Num(2))))

\* the joystick as __init__ leaves it; no mouse button is down
NewJoystick == [joystick_center_abs |-> <<0, 0>>,
                joystick_center_rel |-> <<Num(0), Num(0)>>,
                joystick_grabbed |-> FALSE,
                button_down |-> FALSE]

move_gimbal_absolute(x_servo_abs, y_servo_abs) ==
    <<Publish("avr/pcm/servo/absolute",
              <<"servo", 2, "position", x_servo_abs>>),
      Publish("avr/pcm/servo/absolute",
              <<"servo", 3, "position", y_servo_abs>>)>>

\* update_servos that remaps the position without bounding it first
update_servos_Unbounded(center_rel) ==
    LET span == Num(SERVO_ABS_MAX - SERVO_ABS_MIN)
        x_servo_abs ==
            Round(Add(Num(SERVO_ABS_MIN),
                      Mul(span, TrueDiv(center_rel[1],
                                        Num(BOUNDING_BOX_WIDTH)))))
        y_servo_abs ==
            Round(Add(Num(SERVO_ABS_MIN),
                      Mul(span, TrueDiv(center_rel[2],
                                        Num(BOUNDING_BOX_HEIGHT)))))
    IN  move_gimbal_absolute(x_servo_abs, y_servo_abs)

\* update_servos: the messages it publishes
update_servos(center_rel) ==
    LET x_servo_abs ==
            Round(map_value(center_rel[1], Num(0), Num(BOUNDING_BOX_WIDTH),
                            Num(SERVO_ABS_MIN), Num(SERVO_ABS_MAX)))
        y_servo_abs ==
            Round(map_value(center_rel[2], Num(0), Num(BOUNDING_BOX_HEIGHT),
                            Num(SERVO_ABS_MIN), Num(SERVO_ABS_MAX)))
    IN  move_gimbal_absolute(x_servo_abs, y_servo_abs)

\* _joystick_rect().contains(pos): the square of side 2 * JOYSTICK_RADIUS
\* around the handle, edges included
InJoystickRect(j, pos) ==
    LET center == IF j.joystick_grabbed
                  THEN <<Num(j.joystick_center_abs[1]),
                         Num(j.joystick_center_abs[2])>>
                  ELSE Center
        left == Sub(center[1], Num(JOYSTICK_RADIUS))
        top == Sub(center[2], Num(JOYSTICK_RADIUS))
        right == Add(left, Num(2 * JOYSTICK_RADIUS))
        bottom == Add(top, Num(2 * JOYSTICK_RADIUS))
    IN  /\ Le(left, Num(pos[1])) /\ Le(Num(pos[1]), right)
        /\ Le(top, Num(pos[2])) /\ Le(Num(pos[2]), bottom)

\* _bound_joystick that bounds the point at the far edges only
_bound_joystick_UpperOnly(point) ==
    <<IF point[1] > BOUNDING_BOX_MAX_X THEN BOUNDING_BOX_MAX_X ELSE point[1],
      IF point[2] > BOUNDING_BOX_MAX_Y THEN BOUNDING_BOX_MAX_Y ELSE point[2]>>

_bound_joystick(point) ==
    <<IF point[1] > BOUNDING_BOX_MAX_X THEN BOUNDING_BOX_MAX_X
      ELSE IF point[1] < BOUNDING_BOX_MIN_X THEN BOUNDING_BOX_MIN_X
      ELSE point[1],
      IF point[2] > BOUNDING_BOX_MAX_Y THEN BOUNDING_BOX_MAX_Y
      ELSE IF point[2] < BOUNDING_BOX_MIN_Y THEN BOUNDING_BOX_MIN_Y
      ELSE point[2]>>

\* coordinates of the mouse; a drag may leave the widget
Coords == {-10, 60, 151, 250, 310}
Points == Coords \X Coords

\* mousePressEvent
MousePress(pos) ==
    /\ ~joystick.button_down
    /\ joystick' = [joystick EXCEPT
                      !.joystick_grabbed = InJoystickRect(joystick, pos),
                      !.button_down = TRUE]
    /\ events' = <<>>
    /\ handler' = <<"mousePressEvent">>
    /\ UNCHANGED <<cfgVars, connVars, wdVars, display, autonomy, control,
                   thermal, calc, gamepad>>

\* mouseReleaseEvent: a repaint and nothing else
MouseRelease ==
    /\ joystick.button_down
    /\ joystick' = [joystick EXCEPT !.button_down = FALSE]
    /\ events' = <<>>
    /\ handler' = <<"mouseReleaseEvent">>
    /\ UNCHANGED <<cfgVars, connVars, wdVars, display, autonomy, control,
                   thermal, calc, gamepad>>

\* mouseMoveEvent, delivered while a button is down; due: rate_limit lets
\* the call of update_servos through
MouseMove(pos, due) ==
    LET center_abs == IF joystick.joystick_grabbed
                      THEN _bound_joystick(pos)
                      ELSE joystick.joystick_center_abs
        inverted == PropertyGet(disk, "joystick_inverted")
        joystick_center_abs_y ==
            IF inverted.value[2]
            THEN Sub(Num(HEIGHT), Num(center_abs[2]))
            ELSE Num(center_abs[2])
        center_rel ==
            <<Add(Sub(Num(center_abs[1]), Center[1]),
                  TrueDiv(Num(BOUNDING_BOX_WIDTH), Num(2))),
              Add(Sub(joystick_center_abs_y, Center[2]),
                  TrueDiv(Num(BOUNDING_BOX_HEIGHT), Num(2)))>>
    IN  /\ joystick.button_down
        /\ joystick' = [joystick EXCEPT !.joystick_center_abs = center_abs,
                                        !.joystick_center_rel = center_rel]
        /\ disk' = inverted.disk
        /\ events' = IF due THEN update_servos(center_rel) ELSE <<>>
        /\ handler' = <<"mouseMoveEvent", pos>>
        /\ UNCHANGED <<last, lastset, stale, connVars, wdVars, display,
                       autonomy, control, thermal, calc, gamepad>>

\* inverted_checkbox_clicked
InvertedCheckboxClicked(checked) ==
    /\ disk' = PropertySet(disk, "joystick_inverted", PyBool(checked))
    /\ events' = <<>>
    /\ handler' = <<"inverted_checkbox_clicked">>
    /\ UNCHANGED <<last, lastset, stale, connVars, wdVars, display,
                   autonomy, control, joystick, thermal, calc, gamepad>>

(***************************************************************************)
(* The thermal view.  A frame is the list of the readings (bytes) that the *)
(* payload of avr/thermal/reading decodes to.                              *)
(***************************************************************************)
COLORDEPTH == 1024

\* colour.color_scale(begin, end, nb): nb + 1 colours
color_scale(nb) == [r \in 1..(nb + 1) |-> <<"hsl", r - 1>>]

\* Color.range_to(value, steps)
range_to(steps) == color_scale(steps - 1)

\* ThermalView.colors, the palette
colors == range_to(COLORDEPTH)

\* the view as __init__ leaves it, and the two input fields as build
\* fills them
NewThermal ==
    [MINTEMP |-> Num(20), MAXTEMP |-> Num(32),
     last_lowest_temp |-> Num(999),
     float_pixels |-> <<>>, canvas |-> {},
     temp_min_line_edit |-> Str(Num(20)),
     temp_max_line_edit |-> Str(Num(32))]

set_temp_range(t, mintemp, maxtemp) ==
    [t EXCEPT !.MINTEMP = mintemp, !.MAXTEMP = maxtemp]

\* set_calibrated_temp_range that derives the maximum from the old minimum
set_calibrated_temp_range_OldMin(t) ==
    [t EXCEPT !.MINTEMP = Add(t.last_lowest_temp, Num(0)),
              !.MAXTEMP = Add(t.MINTEMP, Num(15))]

set_calibrated_temp_range(t) ==
    [t EXCEPT !.MINTEMP = Add(t.last_lowest_temp, Num(0)),
              !.MAXTEMP = Add(t.last_lowest_temp, Num(15))]

\* min(pixel_ints) of a non-empty list
RECURSIVE MinOf(_)
MinOf(pixel_ints) ==
    IF Len(pixel_ints) = 1 THEN pixel_ints[1]
    ELSE LET m == MinOf(Tail(pixel_ints))
         IN  IF m < Head(pixel_ints) THEN m ELSE Head(pixel_ints)

\* The values the cells of the refined grid may take after the cubic
\* interpolation of the remapped readings: a reading itself, a value
\* between the smallest and the largest, and a value that overshoots by a
\* quarter of their distance on either side.
Interpolated(float_pixels) ==
    LET values == {float_pixels[k] : k \in DOMAIN float_pixels}
        lo == CHOOSE v \in values : \A w \in values : Le(v, w)
        hi == CHOOSE v \in values : \A w \in values : Le(w, v)
        quarter == TrueDiv(Sub(hi, lo), Num(4))
    IN  values \cup {TrueDiv(Add(lo, hi), Num(2)),
                     Sub(lo, quarter), Add(hi, quarter)}

\* update_canvas that uses a cell as the palette index as it is
update_canvas_NoConstrain(t, pixels) ==
    LET float_pixels ==
            [k \in DOMAIN pixels |->
                map_value(Num(pixels[k]), t.MINTEMP, t.MAXTEMP,
                          Num(0), Num(COLORDEPTH - 1))]
    IN  IF \E k \in DOMAIN pixels : float_pixels[k] = ZeroDivisionError
        THEN t
        ELSE [t EXCEPT !.float_pixels = float_pixels,
                       !.canvas = {Trunc(pixel) :
                                     pixel \in Interpolated(float_pixels)}]

\* update_canvas: canvas holds the palette indices the cells are painted
\* with; a ZeroDivisionError of the remapping leaves the canvas alone
update_canvas(t, pixels) ==
    LET float_pixels ==
            [k \in DOMAIN pixels |->
                map_value(Num(pixels[k]), t.MINTEMP, t.MAXTEMP,
                          Num(0), Num(COLORDEPTH - 1))]
    IN  IF \E k \in DOMAIN pixels : float_pixels[k] = ZeroDivisionError
        THEN t
        ELSE [t EXCEPT !.float_pixels = float_pixels,
                       !.canvas =
                          {Trunc(constrain(pixel, Num(0),
                                           Num(COLORDEPTH - 1))) :
                             pixel \in Interpolated(float_pixels)}]

process_thermal_reading(t, pixel_ints) ==
    LET lowest == MinOf(pixel_ints)
    IN  update_canvas([t EXCEPT !.last_lowest_temp = Num(lowest)],
                      pixel_ints)

\* readings of the camera and the frames made of them
Readings == {18, 30, 40}
Frames == [1..FramePixels -> Readings]

\* texts the operator types into an input field before the click
TempTexts == {Blank, Str(Num(20)), Str(Num(32))}

\* a frame arrives on avr/thermal/reading
ProcessThermalReading(pixel_ints) ==
    /\ thermal' = process_thermal_reading(thermal, pixel_ints)
    /\ events' = <<>>
    /\ handler' = <<"process_thermal_reading", pixel_ints>>
    /\ UNCHANGED <<cfgVars, connVars, wdVars, display, autonomy, control,
                   joystick, calc, gamepad>>

\* "Set Temp Range" clicked with min_text and max_text in the two input
\* fields: float() of a blank field raises ValueError
SetTempRangeClicked(min_text, max_text) ==
    LET t == [thermal EXCEPT !.temp_min_line_edit = min_text,
                             !.temp_max_line_edit = max_text] IN
    /\ thermal' =
          IF Blank \in {min_text, max_text}
          THEN t
          ELSE set_temp_range(t, min_text[2], max_text[2])
    /\ events' = <<>>
    /\ handler' = <<"set_temp_range", min_text, max_text>>
    /\ UNCHANGED <<cfgVars, connVars, wdVars, display, autonomy, control,
                   joystick, calc, gamepad>>

\* "Auto Calibrate Temp Range" clicked: calibrate_temp
CalibrateTemp ==
    LET t == set_calibrated_temp_range(thermal) IN
    /\ thermal' = [t EXCEPT !.temp_min_line_edit = Str(t.MINTEMP),
                            !.temp_max_line_edit = Str(t.MAXTEMP)]
    /\ events' = <<>>
    /\ handler' = <<"calibrate_temp">>
    /\ UNCHANGED <<cfgVars, connVars, wdVars, display, autonomy, control,
                   joystick, calc, gamepad>>

\* ThermalViewControlWidget.clear
ClearThermal ==
    /\ thermal' = [thermal EXCEPT !.canvas = {}]
    /\ events' = <<>>
    /\ handler' = <<"clear">>
    /\ UNCHANGED <<cfgVars, connVars, wdVars, display, autonomy, control,
                   joystick, calc, gamepad>>

(***************************************************************************)
(* The gamepad manager of the thermal view panel.  A dict is the set of    *)
(* its items <<key, value>>.                                               *)
(***************************************************************************)
\* joystick-class devices that may be attached
Devices == {"pad", "wheel"}

\* Joystick.get_name, get_guid and the readings of its axes, all of them v
get_name(d) == <<"name", d>>
get_guid(d) == <<"guid", d>>
get_axes(d, v) == IF d = "pad" THEN <<v, v>> ELSE <<v>>

\* readings of an axis
AxisValues == {0, 1}

\* dict[key] = value
PutItem(dict, key, value) ==
    {item \in dict : item[1] # key} \cup {<<key, value>>}

\* dict.keys()
KeysOf(dict) == {item[1] : item \in dict}

\* GamepadManager after build: no device, empty caches, the 100 ms timer
\* started, no thread
NewGamepad ==
    [attached |-> {},
     joystick_name_to_guid |-> {},
     joystick_guid_to_name |-> {},
     joystick_guid_to_axes |-> {},
     polled |-> {},
     threads |-> {},
     created |-> 0,
     started |-> <<>>]

\* the loop of update_joysticks over the devices pygame enumerates
RECURSIVE Enumerate(_, _, _)
Enumerate(g, devices, v) ==
    IF devices = {} THEN g
    ELSE LET d == CHOOSE x \in devices : TRUE
         IN  Enumerate(
               [g EXCEPT
                  !.joystick_name_to_guid =
                      PutItem(@, get_name(d), get_guid(d)),
                  !.joystick_guid_to_name =
                      PutItem(@, get_guid(d), get_name(d)),
                  !.joystick_guid_to_axes =
                      PutItem(@, get_guid(d), get_axes(d, v))],
               devices \ {d}, v)

\* update_joysticks: polled is the enumeration of this cycle
update_joysticks(g, v) ==
    [Enumerate(g, g.attached, v) EXCEPT !.polled = g.attached]

\* a device is plugged in or pulled
AttachGamepad(d) ==
    /\ d \notin gamepad.attached
    /\ gamepad' = [gamepad EXCEPT !.attached = @ \cup {d}]
    /\ UNCHANGED <<cfgVars, connVars, wdVars, display, autonomy, control,
                   joystick, thermal, calc, events, handler>>

DetachGamepad(d) ==
    /\ d \in gamepad.attached
    /\ gamepad' = [gamepad EXCEPT !.attached = @ \ {d}]
    /\ UNCHANGED <<cfgVars, connVars, wdVars, display, autonomy, control,
                   joystick, thermal, calc, events, handler>>

\* update_joysticks_manager, the slot of the 100 ms timer: a new QThread
\* is started; its started signal is queued for the UI thread, where the
\* manager lives, and its run() enters the event loop of the thread
UpdateJoysticksManager ==
    /\ gamepad.created < MaxThreads
    /\ gamepad' = [gamepad EXCEPT
                     !.created = @ + 1,
                     !.threads = @ \cup {gamepad.created + 1},
                     !.started = Append(@, gamepad.created + 1)]
    /\ events' = <<>>
    /\ handler' = <<"update_joysticks_manager">>
    /\ UNCHANGED <<cfgVars, connVars, wdVars, display, autonomy, control,
                   joystick, thermal, calc>>

\* a queued started signal is delivered: update_joysticks runs.  No code
\* calls quit() on a thread, so none leaves its event loop and none emits
\* finished, the signal update_gamepad_combobox is connected to.
UpdateJoysticks(v) ==
    /\ gamepad.started # <<>>
    /\ gamepad' = [update_joysticks(gamepad, v) EXCEPT !.started = Tail(@)]
    /\ events' = <<>>
    /\ handler' = <<"update_joysticks", Head(gamepad.started)>>
    /\ UNCHANGED <<cfgVars, connVars, wdVars, display, autonomy, control,
                   joystick, thermal, calc>>

(***************************************************************************)
(* The module health watchdog of the telemetry panel.  A topic is the      *)
(* sequence of its characters.                                             *)
(***************************************************************************)
\* "avr/fcm"
PrefixFcm ==
    <<"a", "v", "r", "/", "f", "c", "m">>
\* "avr/vio"
PrefixVio ==
    <<"a", "v", "r", "/", "v", "i", "o">>
\* "avr/apriltag"
PrefixApriltag ==
    <<"a", "v", "r", "/", "a", "p", "r", "i", "l", "t", "a", "g">>
\* "avr/fusion"
PrefixFusion ==
    <<"a", "v", "r", "/", "f", "u", "s", "i", "o", "n">>
\* "avr/fcm/battery"
TopicBattery ==
    <<"a", "v", "r", "/", "f", "c", "m", "/", "b", "a", "t", "t", "e", "r",
    "y">>
\* "avr/fcm/armed"
TopicArmed ==
    <<"a", "v", "r", "/", "f", "c", "m", "/", "a", "r", "m", "e", "d">>
\* "avr/vio/heading"
TopicVio ==
    <<"a", "v", "r", "/", "v", "i", "o", "/", "h", "e", "a", "d", "i", "n",
    "g">>
\* "avr/apriltags/visible"
TopicApriltags ==
    <<"a", "v", "r", "/", "a", "p", "r", "i", "l", "t", "a", "g", "s", "/",
    "v", "i", "s", "i", "b", "l", "e">>
\* "avr/fusion/heading"
TopicFusion ==
    <<"a", "v", "r", "/", "f", "u", "s", "i", "o", "n", "/", "h", "e", "a",
    "d", "i", "n", "g">>
\* "avr/pcm/laser/on"
TopicLaser ==
    <<"a", "v", "r", "/", "p", "c", "m", "/", "l", "a", "s", "e", "r", "/",
    "o", "n">>

\* "avr/fcm/gps/info"
TopicGpsInfo ==
    <<"a", "v", "r", "/", "f", "c", "m", "/", "g", "p", "s", "/", "i", "n",
    "f", "o">>
\* "avr/fcm/flight_mode"
TopicFlightMode ==
    <<"a", "v", "r", "/", "f", "c", "m", "/", "f", "l", "i", "g", "h", "t",
    "_", "m", "o", "d", "e">>
\* "avr/fcm/position/local"
TopicPositionLocal ==
    <<"a", "v", "r", "/", "f", "c", "m", "/", "p", "o", "s", "i", "t", "i",
    "o", "n", "/", "l", "o", "c", "a", "l">>
\* "avr/fcm/position/global"
TopicPositionGlobal ==
    <<"a", "v", "r", "/", "f", "c", "m", "/", "p", "o", "s", "i", "t", "i",
    "o", "n", "/", "g", "l", "o", "b", "a", "l">>
\* "avr/fcm/attitude/euler/degrees"
TopicAttitudeEuler ==
    <<"a", "v", "r", "/", "f", "c", "m", "/", "a", "t", "t", "i", "t", "u",
    "d", "e", "/", "e", "u", "l", "e", "r", "/", "d", "e", "g", "r", "e",
    "e", "s">>

\* the keys of topic_status_map in the order build registers them
StatusPrefixes == <<PrefixFcm, PrefixVio, PrefixApriltag, PrefixFusion>>
Tracked == 1..Len(StatusPrefixes)

\* topics of the messages the bus delivers
Topics == {TopicBattery, TopicArmed, TopicVio, TopicApriltags, TopicFusion,
           TopicLaser}

\* str.startswith
StartsWith(topic, prefix) ==
    /\ Len(prefix) <= Len(topic)
    /\ SubSeq(topic, 1, Len(prefix)) = prefix

\* the handler topic_callbacks declares for a topic
TopicCallback(topic) ==
    CASE topic = TopicGpsInfo -> "update_gps_info"
      [] topic = TopicBattery -> "update_battery"
      [] topic = TopicFlightMode -> "update_flight_mode"
      [] topic = TopicArmed -> "update_armed"
      [] topic = TopicPositionLocal -> "update_local_location"
      [] topic = TopicPositionGlobal -> "update_global_location"
      [] topic = TopicAttitudeEuler -> "update_euler_attitude"
      [] OTHER -> "none"

\* payloads of the messages the bus delivers on a topic
NoPayload == [none |-> TRUE]
Payloads(topic) ==
    CASE topic = TopicGpsInfo ->
            {[visible_satellites |-> 7, fix_type |-> "3D"],
             [visible_satellites |-> 0, fix_type |-> "NO_FIX"]}
      [] topic = TopicBattery ->
            {[state_of_charge |-> Num(-5), voltage |-> Frac(123456, 100000)],
             [state_of_charge |-> Frac(101, 2), voltage |-> Num(12)],
             [state_of_charge |-> Num(150), voltage |-> Num(16)]}
      [] topic = TopicFlightMode ->
            {[flight_mode |-> "HOLD"], [flight_mode |-> "MANUAL"]}
      [] topic = TopicArmed -> {[armed |-> TRUE], [armed |-> FALSE]}
      [] topic = TopicPositionLocal ->
            {[n |-> Num(1), e |-> Num(-2), d |-> Frac(1, 2)]}
      [] topic = TopicPositionGlobal ->
            {[lat |-> Num(32), lon |-> Num(-97), alt |-> Num(200)]}
      [] topic = TopicAttitudeEuler ->
            {[roll |-> Num(0), pitch |-> Num(5), yaw |-> Num(-90)]}
      [] OTHER -> {NoPayload}

\* the on_message of the base class: the handler declared for the topic,
\* if any, is called with the payload
Dispatch(d, topic, payload) ==
    CASE TopicCallback(topic) = "update_gps_info" ->
            update_gps_info(d, payload)
      [] TopicCallback(topic) = "update_battery" ->
            update_battery(d, payload)
      [] TopicCallback(topic) = "update_flight_mode" ->
            update_flight_mode(d, payload)
      [] TopicCallback(topic) = "update_armed" -> update_armed(d, payload)
      [] TopicCallback(topic) = "update_local_location" ->
            update_local_location(d, payload)
      [] TopicCallback(topic) = "update_global_location" ->
            update_global_location(d, payload)
      [] TopicCallback(topic) = "update_euler_attitude" ->
            update_euler_attitude(d, payload)
      [] OTHER -> d

\* QTimer.start(2000), counted in ticks of the clock
WatchdogMs == 2000
IntervalTicks == (WatchdogMs * TicksPerSecond) \div 1000
SinceCap == IntervalTicks + TicksPerSecond
\* milliseconds of a number of ticks
Ms(ticks) == (ticks * 1000) \div TicksPerSecond

NoTimer == [state |-> "none", left |-> 0]
Started(ms) == [state |-> "active", left |-> (ms * TicksPerSecond) \div 1000]
Fired == [state |-> "fired", left |-> 0]

\* the loop of on_message with the test of startswith inverted
RECURSIVE FirstMatch_Inverted(_, _)
FirstMatch_Inverted(topic, i) ==
    IF i > Len(StatusPrefixes) THEN 0
    ELSE IF ~StartsWith(topic, StatusPrefixes[i]) THEN i
    ELSE FirstMatch_Inverted(topic, i + 1)

\* the prefixes the loop of on_message visits before it breaks: the first
\* index whose prefix the topic starts with, or 0
RECURSIVE FirstMatch(_, _)
FirstMatch(topic, i) ==
    IF i > Len(StatusPrefixes) THEN 0
    ELSE IF StartsWith(topic, StatusPrefixes[i]) THEN i
    ELSE FirstMatch(topic, i + 1)

\* the topic of a message starts with the j-th tracked prefix
Matches(topic, j) == StartsWith(topic, StatusPrefixes[j])

\* the running timers, each by the ticks it has left, without one that has
\* left ticks left
RECURSIVE Without(_, _)
Without(running, left) ==
    IF running = <<>> THEN <<>>
    ELSE IF Head(running) = left THEN Tail(running)
    ELSE <<Head(running)>> \o Without(Tail(running), left)

\* timer.stop() of the timer the dictionary holds
StopTimer(running, timer) ==
    IF timer.state = "active" THEN Without(running, timer.left) ELSE running

\* on_message that starts the new timer without stopping the one the
\* dictionary holds
OnMessage_NoStop(topic, payload) ==
    LET i == FirstMatch(topic, 1) IN
    /\ dispatched' = TopicCallback(topic)
    /\ display' = Dispatch(display, topic, payload)
    /\ IF i = 0
       THEN UNCHANGED <<health, topic_timer, qtimers>>
       ELSE /\ health' = [health EXCEPT ![i] = TRUE]
            /\ topic_timer' = [topic_timer EXCEPT ![i] = Started(WatchdogMs)]
            /\ qtimers' = [qtimers EXCEPT
                  ![i] = Append(@, Started(WatchdogMs).left)]
    /\ heard' = [j \in Tracked |-> heard[j] \/ Matches(topic, j)]
    /\ since' = [j \in Tracked |-> IF Matches(topic, j) THEN 0 ELSE since[j]]
    /\ handler' = <<"on_message", topic>>
    /\ events' = <<>>
    /\ UNCHANGED <<cfgVars, connVars, autonomy, control, joystick, thermal,
                   calc, gamepad>>

\* on_message that leaves a timer that is still running alone
OnMessage_KeepsTimer(topic, payload) ==
    LET i == FirstMatch(topic, 1) IN
    /\ dispatched' = TopicCallback(topic)
    /\ display' = Dispatch(display, topic, payload)
    /\ IF i = 0
       THEN UNCHANGED <<health, topic_timer, qtimers>>
       ELSE /\ health' = [health EXCEPT ![i] = TRUE]
            /\ topic_timer' =
                  IF topic_timer[i].state = "active" THEN topic_timer
                  ELSE [topic_timer EXCEPT ![i] = Started(WatchdogMs)]
            /\ qtimers' =
                  IF topic_timer[i].state = "active" THEN qtimers
                  ELSE [qtimers EXCEPT
                          ![i] = Append(@, Started(WatchdogMs).left)]
    /\ heard' = [j \in Tracked |-> heard[j] \/ Matches(topic, j)]
    /\ since' = [j \in Tracked |-> IF Matches(topic, j) THEN 0 ELSE since[j]]
    /\ handler' = <<"on_message", topic>>
    /\ events' = <<>>
    /\ UNCHANGED <<cfgVars, connVars, autonomy, control, joystick, thermal,
                   calc, gamepad>>

\* VMCTelemetryWidget.on_message
OnMessage(topic, payload) ==
    LET i == FirstMatch(topic, 1) IN
    /\ dispatched' = TopicCallback(topic)
    /\ display' = Dispatch(display, topic, payload)
    /\ IF i = 0
       THEN UNCHANGED <<health, topic_timer, qtimers>>
       ELSE /\ health' = [health EXCEPT ![i] = TRUE]
            /\ topic_timer' = [topic_timer EXCEPT ![i] = Started(WatchdogMs)]
            /\ qtimers' = [qtimers EXCEPT
                  ![i] = Append(StopTimer(@, topic_timer[i]),
                                Started(WatchdogMs).left)]
    /\ heard' = [j \in Tracked |-> heard[j] \/ Matches(topic, j)]
    /\ since' = [j \in Tracked |-> IF Matches(topic, j) THEN 0 ELSE since[j]]
    /\ handler' = <<"on_message", topic>>
    /\ events' = <<>>
    /\ UNCHANGED <<cfgVars, connVars, autonomy, control, joystick, thermal,
                   calc, gamepad>>

\* VMCTelemetryWidget.clear
Clear ==
    /\ display' = ClearDisplay(display)
    /\ handler' = <<"clear">>
    /\ events' = <<>>
    /\ UNCHANGED <<cfgVars, connVars, wdVars, autonomy, control, joystick,
                   thermal, calc, gamepad>>

\* a single-shot timer of prefix i expires: its timeout slot runs
Timeout(i) ==
    /\ \E n \in DOMAIN qtimers[i] : qtimers[i][n] = 0
    /\ health' = [health EXCEPT ![i] = FALSE]
    /\ qtimers' = [qtimers EXCEPT ![i] = Without(@, 0)]
    /\ topic_timer' =
          IF topic_timer[i].state = "active" /\ topic_timer[i].left = 0
          THEN [topic_timer EXCEPT ![i] = Fired]
          ELSE topic_timer
    /\ UNCHANGED <<heard, since, dispatched, cfgVars, connVars, tabVars>>

\* one tick of time passes; a timer that is due fires before time goes on
Tick ==
    /\ \A i \in Tracked : \A n \in DOMAIN qtimers[i] : qtimers[i][n] > 0
    /\ \E i \in Tracked : heard[i] /\ since[i] < SinceCap
    /\ topic_timer' = [i \in Tracked |->
          IF topic_timer[i].state = "active"
          THEN [topic_timer[i] EXCEPT !.left = @ - 1]
          ELSE topic_timer[i]]
    /\ qtimers' = [i \in Tracked |->
          [n \in DOMAIN qtimers[i] |-> qtimers[i][n] - 1]]
    /\ since' = [i \in Tracked |->
          IF heard[i] /\ since[i] < SinceCap
          THEN since[i] + 1 ELSE since[i]]
    /\ UNCHANGED <<health, heard, dispatched, cfgVars, connVars, tabVars>>

(***************************************************************************)
(* Initial states and specifications.                                      *)
(***************************************************************************)
\* the settings file a session starts with
StoredBroker == Put(Put(EmptyDict, "mqtt_host", PyStr("vmc")),
                    "mqtt_port", PyInt(1883))
InitialFiles == {Absent, Garbage, Scalar, Object(Dumps(EmptyDict)),
                 Object(Dumps(StoredBroker))}

CfgInit ==
    /\ last = NoOp
    /\ lastset = [k \in Keys |-> NoSet]
    /\ stale = FALSE

ConnInit ==
    /\ stack = <<>>
    /\ queue = <<>>
    /\ client = [running |-> FALSE]
    /\ done = NoCall
    /\ shown = <<"disconnected">>

\* StatusLabel.__init__ calls set_health(False); topic_timer starts empty
WdInit ==
    /\ health = [i \in Tracked |-> FALSE]
    /\ topic_timer = [i \in Tracked |-> NoTimer]
    /\ qtimers = [i \in Tracked |-> <<>>]
    /\ heard = [i \in Tracked |-> FALSE]
    /\ since = [i \in Tracked |-> 0]
    /\ dispatched = "none"

\* the panels after build, before any handler ran
TabInit ==
    /\ display = NewDisplay
    /\ autonomy = NewAutonomy
    /\ control = NewControl
    /\ joystick = NewJoystick
    /\ thermal = NewThermal
    /\ gamepad = NewGamepad
    /\ calc = NoCalc
    /\ events = <<>>
    /\ handler = <<"none">>

\* the connection panel after build
Init ==
    /\ \E d \in InitialFiles :
          /\ disk = Build(d).disk
          /\ panel = Build(d).panel
    /\ CfgInit /\ ConnInit /\ WdInit /\ TabInit

Next ==
    \/ ClickConnect
    \/ \E ok \in BOOLEAN : ConnectRun(ok)
    \/ ClickDisconnect
    \/ \E callback \in BOOLEAN : StopRun(callback)
    \/ Return
    \/ OnDisconnect
    \/ Deliver
    \/ \E h \in HostTexts : EditHost(h)
    \/ \E t \in PortTexts : EditPort(t)

Spec == Init /\ [][Next]_vars

\* the settings store on its own
InitConfig ==
    /\ disk \in InitialFiles
    /\ panel = Build(Absent).panel
    /\ CfgInit /\ ConnInit /\ WdInit /\ TabInit

NextConfig ==
    \/ \E k \in Keys : Get(k)
    \/ \E k \in Keys : \E v \in SetValues(k) : Set(k, v)
    \/ \E c \in ExternalContents : ExternalWrite(c)

SpecConfig == InitConfig /\ [][NextConfig]_vars

\* the telemetry panel on its own
InitWatchdog ==
    /\ disk = Absent
    /\ panel = Build(Absent).panel
    /\ CfgInit /\ ConnInit /\ WdInit /\ TabInit

NextWatchdog ==
    \/ \E topic \in Topics : \E payload \in Payloads(topic) :
          OnMessage(topic, payload)
    \/ \E i \in Tracked : Timeout(i)
    \/ Tick

SpecWatchdog == InitWatchdog /\ [][NextWatchdog]_vars

\* the display fields of the telemetry panel
TelemetryTopics == {TopicGpsInfo, TopicBattery, TopicFlightMode, TopicArmed,
                    TopicPositionLocal, TopicPositionGlobal,
                    TopicAttitudeEuler}

NextTelemetry ==
    \/ \E topic \in TelemetryTopics : \E payload \in Payloads(topic) :
          OnMessage(topic, payload)
    \/ Clear

\* the panels and helpers that keep no settings: every one on its own
InitPanel ==
    /\ disk = Absent
    /\ panel = Build(Absent).panel
    /\ CfgInit /\ ConnInit /\ WdInit /\ TabInit

\* the numeric helpers: the arguments of one call are drawn
InitCalc ==
    /\ disk = Absent
    /\ panel = Build(Absent).panel
    /\ CfgInit /\ ConnInit /\ WdInit
    /\ display = NewDisplay
    /\ autonomy = NewAutonomy
    /\ control = NewControl
    /\ joystick = NewJoystick
    /\ thermal = NewThermal
    /\ gamepad = NewGamepad
    /\ events = <<>>
    /\ handler = <<"none">>
    /\ \E value, in_min, in_max \in CalcNums :
          \E out_min, out_max \in CalcOuts :
             calc = [NoCalc EXCEPT
                       !.args = <<value, in_min, in_max, out_min, out_max>>]

NextCalc ==
    \/ CallConstrain
    \/ CallNormalizeValue
    \/ CallMapValue

SpecTelemetry == InitPanel /\ [][NextTelemetry]_vars

\* the autonomy panel
NextAutonomy ==
    \/ \E number \in Buildings : EnableBuildingDrop(number)
    \/ \E number \in Buildings : DisableBuildingDrop(number)
    \/ EnableBuildingDropAll
    \/ DisableBuildingDropAll
    \/ EnableAutonomous
    \/ DisableAutonomous

SpecAutonomy == InitPanel /\ [][NextAutonomy]_vars

\* the control panel
NextControl ==
    \/ \E number \in Servos : OpenServo(number)
    \/ \E number \in Servos : CloseServo(number)
    \/ OpenServoAll
    \/ CloseServoAll
    \/ \E color \in LedColors : SetLed(color)

SpecControl == InitPanel /\ [][NextControl]_vars

\* the on-screen joystick; the build of its panel read the inverted flag
InitJoystick ==
    /\ disk = PropertyGet(Absent, "joystick_inverted").disk
    /\ panel = Build(Absent).panel
    /\ CfgInit /\ ConnInit /\ WdInit /\ TabInit

NextJoystick ==
    \/ \E pos \in Points : MousePress(pos)
    \/ \E pos \in Points : \E due \in BOOLEAN : MouseMove(pos, due)
    \/ MouseRelease
    \/ \E checked \in BOOLEAN : InvertedCheckboxClicked(checked)

SpecJoystick == InitJoystick /\ [][NextJoystick]_vars

\* the gamepad manager
NextGamepad ==
    \/ \E d \in Devices : AttachGamepad(d)
    \/ \E d \in Devices : DetachGamepad(d)
    \/ UpdateJoysticksManager
    \/ \E v \in AxisValues : UpdateJoysticks(v)

SpecGamepad == InitPanel /\ [][NextGamepad]_vars

\* the timer fires, queued signals are delivered and devices come and go
\* for as long as they can
SpecGamepadLive == SpecGamepad /\ WF_vars(NextGamepad)

\* the thermal view
NextThermal ==
    \/ \E pixel_ints \in Frames : ProcessThermalReading(pixel_ints)
    \/ \E min_text, max_text \in TempTexts :
          SetTempRangeClicked(min_text, max_text)
    \/ CalibrateTemp
    \/ ClearThermal

SpecThermal == InitPanel /\ [][NextThermal]_vars

SpecCalc == InitCalc /\ [][NextCalc]_vars

(***************************************************************************)
(* Properties of the settings store (checked under SpecConfig).            *)
(***************************************************************************)
\* the default the documentation of the settings record gives for a key
DocumentedDefault(k) ==
    IF k \in {"gamepad_x_axis_inverted", "gamepad_y_axis_inverted"}
    THEN PyBool(FALSE)
    ELSE Default(k)

\* v is a value of the type declared for key k
OfDeclaredType(v, k) == CheckType(v, Annotation(k))

\* the file is a JSON object that maps key k to the Python value v
OnDisk(k, v) ==
    /\ disk.kind = "object"
    /\ k \in DOMAIN disk.doc
    /\ disk.doc[k] = ToJson(v)

\* the store was the last to touch the file
Settled == last.op # "none" /\ ~stale

\* C4: after set(key, v), v of the key's declared type, the file is a JSON
\* object that maps key to v, and a get(key) that follows with no other set
\* of the key in between returns v, whatever was on disk before the set.
C4_SetGetRoundTrip ==
    /\ (Settled /\ last.op = "set") => OnDisk(last.key, last.value)
    /\ (last.op = "get" /\ lastset[last.key] # NoSet)
          => last.value = lastset[last.key]

C4_Witness ==
    /\ last.op = "get" /\ last.key = "gamepad_x_axis_inverted"
    /\ last.found = "object"
    /\ lastset["gamepad_x_axis_inverted"] = PyBool(TRUE)
    /\ lastset["mqtt_port"] = PyInt(5)
    /\ last.value = PyBool(TRUE)

\* C5: a get of a key that the document does not hold (no file, or an
\* object without the key) returns the documented default of the key, and a
\* default other than None is on disk under the key right after the get.
C5_MissingKeyGivesDefault ==
    (Settled /\ last.op = "get" /\ last.path = "missing"
        /\ last.found \in {"absent", "object"})
    => /\ last.value = DocumentedDefault(last.key)
       /\ DocumentedDefault(last.key) # PyNone
             => OnDisk(last.key, DocumentedDefault(last.key))

\* C6: a get of a key whose on-disk value is not of the declared type, also
\* a value written from outside after earlier reads, returns the default of
\* the key, and a default other than None is on disk right after the get.
C6_TypeMismatchGivesDefault ==
    (Settled /\ last.op = "get" /\ last.had # NoSet
        /\ ~OfDeclaredType(last.had, last.key))
    => /\ last.value = DocumentedDefault(last.key)
       /\ DocumentedDefault(last.key) # PyNone
             => OnDisk(last.key, DocumentedDefault(last.key))

\* C7: a get that finds a file that is not JSON, or JSON that is not an
\* object, treats the document as empty and returns the default of the key,
\* a value of the declared type; afterwards the file is absent or an object.
C7_CorruptionRecovery ==
    (Settled /\ last.op = "get" /\ last.found \in {"garbage", "scalar"})
    => /\ last.path = "missing"
       /\ last.value = DocumentedDefault(last.key)
       /\ OfDeclaredType(last.value, last.key)
       /\ disk.kind \in {"absent", "object"}
       /\ disk.kind = "object" => DOMAIN disk.doc = {last.key}

\* C8: every get returns a value of the declared type of the key or the
\* declared default of the key.
C8_ReadsAreTyped ==
    last.op = "get"
    => \/ OfDeclaredType(last.value, last.key)
       \/ last.value = DocumentedDefault(last.key)

Newest(log) == log[Len(log)]

\* what a complete call of connect2 with a host does, in order
ConnectOutcomes == {<<"connecting", "start", "save", "connected">>,
                    <<"connecting", "start raised", "failure">>}

\* C1: a connect2 with an empty host emits nothing, starts no client and
\* leaves the settings alone; any other connect2 emits "connecting", then
\* tries to start the client, then emits one more state: "connected" when
\* nothing raised, "failure" when the start raised; it emits nothing else.
C1_Connect2Emits ==
    [][/\ \A i \in DOMAIN stack' :
             stack'[i].op = "connect2"
             => /\ stack'[i].host # ""
                /\ stack'[i].trace \in
                      (IF stack'[i].pc = "connecting"
                       THEN {<<"connecting">>} ELSE ConnectOutcomes)
       /\ done'.op = "connect2"
             => done'.trace \in
                   (IF done'.host = "" THEN {<<>>} ELSE ConnectOutcomes)
       /\ (done' # done /\ done'.op = "connect2" /\ done'.host = "")
             => UNCHANGED <<panel, shown, client, disk, queue, stack>>
       /\ (Len(stack') > Len(stack) /\ stack'[Len(stack')].op = "connect2")
             => /\ Newest(shown') = "connecting"
                /\ panel'.state = "connecting"
                /\ UNCHANGED <<client, disk>>
       /\ (Len(stack') = Len(stack) /\ stack' # stack
              /\ stack'[Len(stack')].op = "connect2")
             => LET t == stack'[Len(stack')].trace
                    e == t[Len(t)]
                IN  /\ Newest(shown') = e /\ panel'.state = e
                    /\ shown' = Remember(shown, e)
                    /\ e = "connected" => client'.running
                    /\ e = "failure" => UNCHANGED <<client, disk>>
      ]_vars

C1_Witness ==
    /\ done.op = "connect2" /\ done.host = "vmc"
    /\ done.trace = <<"connecting", "start raised", "failure">>
    /\ panel.state = "failure"
    /\ stack = <<>>

\* C2: stop emits "disconnecting", stops the client and emits
\* "disconnected", in that order, and the state the panel shows next after
\* "disconnecting" is "disconnected", never "connecting", "connected" or
\* "failure".
C2_DisconnectingThenDisconnected ==
    [][/\ \A i \in DOMAIN stack' :
             stack'[i].op = "stop"
             => stack'[i].trace =
                   (IF stack'[i].pc = "disconnecting"
                    THEN <<"disconnecting">>
                    ELSE <<"disconnecting", "stop client", "disconnected">>)
       /\ (panel.state = "disconnecting" /\ panel'.state # panel.state)
             => panel'.state = "disconnected"
      ]_vars

\* C3: the panel starts in "disconnected", and the controls always match
\* the state last delivered to set_connected_state: connect is disabled iff
\* connected, disconnect is enabled iff connected, host and port are
\* editable iff disconnected or failure.
C3_ControlsMatchState ==
    /\ panel.state = Newest(shown)
    /\ Len(shown) = 1 => panel.state = "disconnected"
    /\ ~panel.connect_enabled <=> panel.state = "connected"
    /\ panel.disconnect_enabled <=> panel.state = "connected"
    /\ ~panel.host_readonly <=> panel.state \in {"disconnected", "failure"}
    /\ ~panel.port_readonly <=> panel.state \in {"disconnected", "failure"}
    /\ panel.state_label = Title(panel.state)

C3_Witness ==
    /\ panel.state = "connecting"
    /\ panel.connect_enabled /\ ~panel.disconnect_enabled
    /\ panel.host_readonly /\ panel.port_readonly
    /\ Len(stack) = 2

(***************************************************************************)
(* Properties of the module health watchdog (checked under SpecWatchdog).  *)
(***************************************************************************)
\* C10: every indicator is unhealthy until a message of its prefix is
\* handled; it is healthy right after such a message and for the 2000 ms
\* that follow the most recent one, and it is unhealthy once 2000 ms have
\* passed without another one, until the next one.
C10_Watchdog ==
    \A i \in Tracked :
       /\ ~heard[i] => ~health[i]
       /\ (heard[i] /\ Ms(since[i]) < WatchdogMs) => health[i]
       /\ (heard[i] /\ Ms(since[i]) > WatchdogMs) => ~health[i]
       /\ (heard[i] /\ Ms(since[i]) = WatchdogMs /\ health[i])
             => (topic_timer[i].state = "active" /\ topic_timer[i].left = 0)

C10_Witness ==
    /\ heard[1] /\ ~health[1] /\ Ms(since[1]) = WatchdogMs
    /\ heard[3] /\ health[3] /\ Ms(since[3]) < WatchdogMs
    /\ ~heard[2] /\ ~health[2]

(***************************************************************************)
(* Properties of the telemetry display (checked under SpecTelemetry).      *)
(***************************************************************************)
\* C11: after clear(), whatever messages were received before, every
\* display field is blank (satellites, battery voltage, armed, flight mode,
\* local north/east/down, global lat/lon/alt, roll/pitch/yaw) and the
\* battery indicator shows 0.
C11_ClearBlanksEveryField ==
    handler[1] = "clear"
    => /\ display.satellites_label = Blank
       /\ display.battery_voltage_label = Blank
       /\ display.armed_label = Blank
       /\ display.flight_mode_label = Blank
       /\ display.loc_x_line_edit = Blank /\ display.loc_y_line_edit = Blank
       /\ display.loc_z_line_edit = Blank
       /\ display.loc_lat_line_edit = Blank /\ display.loc_lon_line_edit = Blank
       /\ display.loc_alt_line_edit = Blank
       /\ display.att_r_line_edit = Blank /\ display.att_p_line_edit = Blank
       /\ display.att_y_line_edit = Blank
       /\ display.battery_percent_bar = 0

(***************************************************************************)
(* Properties of the autonomy panel (checked under SpecAutonomy) and of    *)
(* the control panel (checked under SpecControl).                          *)
(***************************************************************************)
\* the events of a handler that are publishes
RECURSIVE Published(_)
Published(log) ==
    IF log = <<>> THEN <<>>
    ELSE IF Head(log)[1] = "publish"
         THEN <<Head(log)>> \o Published(Tail(log))
         ELSE Published(Tail(log))

\* the publishes among log that carry the index i
RECURSIVE PublishedFor(_, _)
PublishedFor(log, i) ==
    IF log = <<>> THEN <<>>
    ELSE IF Head(log)[1] = "publish" /\ Head(log)[3] # <<>>
              /\ Head(log)[3][2] = i
         THEN <<Head(log)>> \o PublishedFor(Tail(log), i)
         ELSE PublishedFor(Tail(log), i)

DropEnabled == <<"<span style='color:", "#0f0", ";'>", "Drop Enabled",
                 "</span>">>
DropDisabled == <<"<span style='color:", "#f00", ";'>", "Drop Disabled",
                  "</span>">>

\* C12: enable_building_drop(i) publishes exactly one
\* avr/autonomous/building/enable with building = i and sets label i to
\* 'Drop Enabled' in green; disable_building_drop(i) publishes exactly one
\* avr/autonomous/building/disable with building = i and sets label i to
\* 'Drop Disabled' in red; all other labels are unchanged; and in every step
\* the label of a building the handler published for shows the last command
\* published for it, while the label of any other building is unchanged.
C12_BuildingDrop ==
    [][\A i \in Buildings :
         /\ handler' = <<"enable_building_drop", i>>
               => /\ Published(events') =
                       <<Publish("avr/autonomous/building/enable",
                                 <<"building", i>>)>>
                  /\ autonomy'.building_labels =
                       [autonomy.building_labels EXCEPT ![i] = DropEnabled]
         /\ handler' = <<"disable_building_drop", i>>
               => /\ Published(events') =
                       <<Publish("avr/autonomous/building/disable",
                                 <<"building", i>>)>>
                  /\ autonomy'.building_labels =
                       [autonomy.building_labels EXCEPT ![i] = DropDisabled]
         /\ LET mine == PublishedFor(events', i)
            IN  autonomy'.building_labels[i] =
                  IF mine = <<>> THEN autonomy.building_labels[i]
                  ELSE IF mine[Len(mine)][2] =
                             "avr/autonomous/building/enable"
                       THEN DropEnabled ELSE DropDisabled
      ]_vars

C12_Witness ==
    /\ handler = <<"disable_building_drop", 3>>
    /\ autonomy.building_labels[3] = DropDisabled
    /\ autonomy.building_labels[2] = DropEnabled
    /\ autonomy.building_labels[5] = Blank

Opened == <<"<span style='color:", "#00f", ";'>", "Opened", "</span>">>
Closed == <<"<span style='color:", "#d2691e", ";'>", "Closed", "</span>">>

\* what 'open all' or 'close all' does: for servo 0, 1, 2, 3 in this order
\* one publish on the topic and then one update of the label
AllServos(topic, text) ==
    [k \in 1..(2 * 4) |->
        IF k % 2 = 1 THEN Publish(topic, <<"servo", (k - 1) \div 2>>)
        ELSE SetText((k - 2) \div 2, text)]

\* C13: open_servo(n) publishes one avr/pcm/servo/open with servo = n and
\* sets label n to 'Opened'; close_servo(n) publishes one
\* avr/pcm/servo/close with servo = n and sets label n to 'Closed'; 'open
\* all' and 'close all' do this for the servos 0, 1, 2, 3 in ascending
\* order, one publish and one label update per servo, and leave all four
\* labels in the same state.
C13_Servos ==
    [][/\ \A n \in 0..3 :
            /\ handler' = <<"open_servo", n>>
                  => /\ events' = <<Publish("avr/pcm/servo/open",
                                             <<"servo", n>>),
                                     SetText(n, Opened)>>
                     /\ control'.servo_labels =
                           [control.servo_labels EXCEPT ![n] = Opened]
            /\ handler' = <<"close_servo", n>>
                  => /\ events' = <<Publish("avr/pcm/servo/close",
                                             <<"servo", n>>),
                                     SetText(n, Closed)>>
                     /\ control'.servo_labels =
                           [control.servo_labels EXCEPT ![n] = Closed]
       /\ handler' = <<"open_servo_all">>
             => /\ events' = AllServos("avr/pcm/servo/open", Opened)
                /\ control'.servo_labels = [n \in 0..3 |-> Opened]
       /\ handler' = <<"close_servo_all">>
             => /\ events' = AllServos("avr/pcm/servo/close", Closed)
                /\ control'.servo_labels = [n \in 0..3 |-> Closed]
      ]_vars

C13_Witness ==
    /\ handler = <<"open_servo_all">>
    /\ Len(events) = 8
    /\ \A n \in 0..3 : control.servo_labels[n] = Opened

(***************************************************************************)
(* Properties of the on-screen joystick (checked under SpecJoystick).      *)
(***************************************************************************)
\* the servo position of a relative position r on an axis of length 200:
\* r bounded to [0, 200], then 700 + 1500 * r / 200, rounded
ServoPosition(r) ==
    LET bounded == IF Lt(r, Num(0)) THEN Num(0)
                   ELSE IF Lt(Num(200), r) THEN Num(200) ELSE r
    IN  Round(Add(Num(700), TrueDiv(Mul(Num(1500), bounded), Num(200))))

\* C14: a servo update of the joystick publishes exactly two
\* avr/pcm/servo/absolute messages, first servo 2 with the position of X,
\* then servo 3 with the position of Y; both positions are integers in
\* [700, 2200], also for a relative position outside [0, 200]; relative
\* position 0 gives 700 and relative position 200 gives 2200.
C14_ServoUpdate ==
    (handler[1] = "mouseMoveEvent" /\ events # <<>>)
    => LET rel == joystick.joystick_center_rel IN
       /\ Len(events) = 2
       /\ \A k \in 1..2 :
             /\ events[k][1] = "publish"
             /\ events[k][2] = "avr/pcm/servo/absolute"
             /\ events[k][3][1] = "servo" /\ events[k][3][2] = k + 1
             /\ events[k][3][3] = "position"
             /\ events[k][3][4] \in 700..2200
             /\ events[k][3][4] = ServoPosition(rel[k])
             /\ rel[k] = Num(0) => events[k][3][4] = 700
             /\ rel[k] = Num(200) => events[k][3][4] = 2200

C14_Witness ==
    /\ handler[1] = "mouseMoveEvent"
    /\ joystick.joystick_center_rel = <<Num(-50), Num(250)>>
    /\ Len(events) = 2
    /\ events[1][3][4] = 700 /\ events[2][3][4] = 2200

(***************************************************************************)
(* Properties of the numeric helpers (checked under SpecCalc).             *)
(***************************************************************************)
\* value clamped into [lo, hi], by cases
Clamped(value, lo, hi) ==
    IF Lt(value, lo) THEN lo ELSE IF Lt(hi, value) THEN hi ELSE value

\* x lies between a and b, whichever of the two is the larger
Between(x, a, b) == (Le(a, x) /\ Le(x, b)) \/ (Le(b, x) /\ Le(x, a))

\* C17: for min_value <= max_value, constrain returns value when value is
\* in [min_value, max_value], min_value when value is below and max_value
\* when value is above; the result lies in [min_value, max_value] and
\* constrain applied to the result returns the result.
C17_Constrain ==
    (calc.fn = "constrain" /\ Le(calc.args[2], calc.args[3]))
    => LET value == calc.args[1]
           min_value == calc.args[2]
           max_value == calc.args[3]
       IN  /\ (Le(min_value, value) /\ Le(value, max_value))
                 => calc.result = value
           /\ Lt(value, min_value) => calc.result = min_value
           /\ Lt(max_value, value) => calc.result = max_value
           /\ Le(min_value, calc.result) /\ Le(calc.result, max_value)
           /\ calc.again = calc.result

C17_Witness ==
    /\ calc.fn = "constrain"
    /\ SubSeq(calc.args, 1, 3) = <<Frac(-3, 2), Num(0), Num(2)>>
    /\ calc.result = Num(0)

\* C18: for in_min < in_max, normalize_value is (c - in_min) / (in_max -
\* in_min) with c the value clamped into [in_min, in_max], a fraction in
\* [0, 1]; map_value is out_min + (out_max - out_min) * that fraction, so
\* a value at or below in_min gives out_min, a value at or above in_max
\* gives out_max, and the result lies between out_min and out_max.
C18_NormalizeAndMap ==
    (calc.fn \in {"normalize_value", "map_value"}
        /\ Lt(calc.args[2], calc.args[3]))
    => LET value == calc.args[1]
           in_min == calc.args[2]
           in_max == calc.args[3]
           fraction == TrueDiv(Sub(Clamped(value, in_min, in_max), in_min),
                               Sub(in_max, in_min))
       IN  /\ Le(Num(0), fraction) /\ Le(fraction, Num(1))
           /\ calc.fn = "normalize_value" => calc.result = fraction
           /\ calc.fn = "map_value"
                 => LET out_min == calc.args[4]
                        out_max == calc.args[5]
                    IN  /\ calc.result =
                              Add(out_min, Mul(Sub(out_max, out_min), fraction))
                        /\ Le(value, in_min) => calc.result = out_min
                        /\ Le(in_max, value) => calc.result = out_max
                        /\ Between(calc.result, out_min, out_max)

C18_Witness ==
    /\ calc.fn = "map_value"
    /\ calc.args = <<Frac(1, 2), Num(0), Num(2), Num(3), Num(-1)>>
    /\ calc.result = Num(2)

\* C15: after a frame was handled under a range with MINTEMP < MAXTEMP,
\* every reading of the frame is remapped to a value in [0, 1023], a
\* reading at or below MINTEMP to 0 and a reading at or above MAXTEMP to
\* 1023; every palette index a cell is painted with is an integer in
\* [0, 1023] and an index of the palette, which has exactly 1024 entries.
C15_ThermalRemap ==
    (/\ handler[1] = "process_thermal_reading"
     /\ Lt(thermal.MINTEMP, thermal.MAXTEMP)) =>
        LET pixel_ints == handler[2] IN
        /\ DOMAIN thermal.float_pixels = DOMAIN pixel_ints
        /\ \A k \in DOMAIN pixel_ints :
              LET v == thermal.float_pixels[k] IN
              /\ Between(v, Num(0), Num(1023))
              /\ Le(Num(pixel_ints[k]), thermal.MINTEMP) => v = Num(0)
              /\ Le(thermal.MAXTEMP, Num(pixel_ints[k])) => v = Num(1023)
        /\ thermal.canvas # {}
        /\ thermal.canvas \subseteq 0..1023
        /\ Len(colors) = 1024
        /\ \A index \in thermal.canvas : (index + 1) \in DOMAIN colors

\* a frame with a reading at MINTEMP and one above MAXTEMP was painted
\* under a calibrated range, with cells at both ends of the palette and
\* in between
C15_Witness ==
    /\ handler[1] = "process_thermal_reading"
    /\ Lt(thermal.MINTEMP, thermal.MAXTEMP)
    /\ thermal.MINTEMP # Num(20)
    /\ \E k \in DOMAIN handler[2] :
          Le(Num(handler[2][k]), thermal.MINTEMP)
    /\ \E k \in DOMAIN handler[2] :
          Lt(thermal.MAXTEMP, Num(handler[2][k]))
    /\ {0, 1023} \subseteq thermal.canvas
    /\ \E index \in thermal.canvas : 0 < index /\ index < 1023

\* the least reading of a frame
LeastReading(pixel_ints) ==
    CHOOSE m \in {pixel_ints[k] : k \in DOMAIN pixel_ints} :
        \A k \in DOMAIN pixel_ints : m <= pixel_ints[k]

\* C16: handling a frame sets the last-seen minimum to the least reading
\* of that frame and keeps the range; the calibration sets MINTEMP to the
\* last-seen minimum and MAXTEMP to that value + 15, whatever the range
\* was; set_temp_range(min, max) sets MINTEMP = min and MAXTEMP = max;
\* clear() changes neither the range nor the last-seen minimum.
C16_Calibration ==
    [][/\ handler'[1] = "process_thermal_reading" =>
            /\ thermal'.last_lowest_temp = Num(LeastReading(handler'[2]))
            /\ thermal'.MINTEMP = thermal.MINTEMP
            /\ thermal'.MAXTEMP = thermal.MAXTEMP
       /\ handler'[1] = "calibrate_temp" =>
            /\ thermal'.MINTEMP = thermal.last_lowest_temp
            /\ thermal'.MAXTEMP = Add(thermal.last_lowest_temp, Num(15))
            /\ thermal'.last_lowest_temp = thermal.last_lowest_temp
       /\ (/\ handler'[1] = "set_temp_range"
           /\ Blank \notin {handler'[2], handler'[3]}) =>
            /\ Str(thermal'.MINTEMP) = handler'[2]
            /\ Str(thermal'.MAXTEMP) = handler'[3]
            /\ thermal'.last_lowest_temp = thermal.last_lowest_temp
       /\ handler'[1] = "clear" =>
            /\ thermal'.MINTEMP = thermal.MINTEMP
            /\ thermal'.MAXTEMP = thermal.MAXTEMP
            /\ thermal'.last_lowest_temp = thermal.last_lowest_temp
      ]_vars

\* the range was calibrated to the least reading of an earlier frame
C16_Witness ==
    /\ handler[1] = "calibrate_temp"
    /\ thermal.canvas # {}
    /\ thermal.last_lowest_temp = Num(30)
    /\ thermal.MINTEMP = Num(30)
    /\ thermal.MAXTEMP = Num(45)

\* the stored host and port, as the settings store reads them
StoredBus(d) ==
    <<PropertyGet(d, "mqtt_host").value, PropertyGet(d, "mqtt_port").value>>

\* this step is the part of connect2 after "connecting" and ends with the
\* given trace
ConnectEnds(trace) ==
    /\ stack # <<>>
    /\ Top.op = "connect2" /\ Top.pc = "connecting"
    /\ Len(stack') = Len(stack)
    /\ stack'[Len(stack')].trace = Top.trace \o trace

Delivers ==
    /\ Len(stack') = Len(stack) + 1
    /\ stack'[Len(stack')].op = "deliver"

\* C20: a disconnect signalled by the client itself reaches the panel as
\* the single state 'disconnected', whatever the panel showed before and
\* with no 'disconnecting' in between; the panel then has the connect
\* action enabled and the host and port fields editable.
C20_UnsolicitedDisconnect ==
    [][Delivers =>
          /\ stack'[Len(stack')].trace = <<"disconnected">>
          /\ shown' = Remember(shown, "disconnected")
          /\ panel'.state = "disconnected"
          /\ panel'.state_label = "Disconnected"
          /\ panel'.connect_enabled
          /\ ~panel'.host_readonly
          /\ ~panel'.port_readonly
      ]_vars

\* the client signalled a disconnect while the panel showed connected
C20_Witness ==
    /\ stack # <<>>
    /\ Top.op = "deliver"
    /\ Len(shown) >= 2
    /\ shown[Len(shown) - 1] = "connected"
    /\ shown[Len(shown)] = "disconnected"
    /\ panel.state = "disconnected"
    /\ client.running

(***************************************************************************)
(* Further properties of the settings store (checked under SpecConfig).    *)
(***************************************************************************)
\* this step is a get or a set of the store
StoreStep == last'.op # "none" /\ ~stale'

\* C21: a set, and the write-back of a default by a get, on a file that
\* holds a JSON object leaves every other key of the object on disk with
\* the value it had, and adds no key but its own.
C21_OtherKeysKept ==
    [][(StoreStep /\ disk.kind = "object") =>
          /\ disk'.kind = "object"
          /\ DOMAIN disk'.doc \subseteq DOMAIN disk.doc \cup {last'.key}
          /\ \A k \in DOMAIN disk.doc \ {last'.key} :
                /\ k \in DOMAIN disk'.doc
                /\ disk'.doc[k] = disk.doc[k]
      ]_vars

\* a key was set in a document that holds a value of a foreign type under
\* another key, and that value is still there
C21_Witness ==
    /\ last.op = "set" /\ last.key = "mqtt_host" /\ last.found = "object"
    /\ ~stale
    /\ disk.kind = "object"
    /\ DOMAIN disk.doc = {"mqtt_host", "mqtt_port"}
    /\ disk.doc["mqtt_port"] = JsReal("1.5")
    /\ disk.doc["mqtt_host"] = JsString("abcde")

(***************************************************************************)
(* Further properties of the watchdog (checked under SpecWatchdog).        *)
(***************************************************************************)
\* C22: a tracked prefix has at most one running timer, the one the
\* dictionary holds, and it expires 2000 ms after the most recent message
\* of the prefix; a healthy indicator has a running timer, and an
\* indicator that was healthy is unhealthy only when 2000 ms have passed
\* since that message.
C22_OneTimerPerPrefix ==
    \A i \in Tracked :
       /\ Len(qtimers[i]) <= 1
       /\ health[i] => Len(qtimers[i]) = 1
       /\ qtimers[i] # <<>> =>
             /\ topic_timer[i].state = "active"
             /\ qtimers[i] = <<topic_timer[i].left>>
             /\ Ms(qtimers[i][1] + since[i]) = WatchdogMs
       /\ (heard[i] /\ ~health[i]) => Ms(since[i]) >= WatchdogMs

\* messages of three prefixes were handled at different times: one timer
\* has just been started, one has run for a while, one has expired
C22_Witness ==
    /\ handler[1] = "on_message"
    /\ \E i, j, k \in Tracked :
          /\ qtimers[i] = <<IntervalTicks>> /\ since[i] = 0 /\ health[i]
          /\ Len(qtimers[j]) = 1 /\ qtimers[j][1] < IntervalTicks
          /\ health[j]
          /\ heard[k] /\ qtimers[k] = <<>> /\ ~health[k]
          /\ topic_timer[k].state = "fired"

\* the first tracked prefix, in the order of registration, that the topic
\* starts with, or 0
FirstTracked(topic) ==
    IF \E j \in Tracked : StartsWith(topic, StatusPrefixes[j])
    THEN CHOOSE j \in Tracked :
            /\ StartsWith(topic, StatusPrefixes[j])
            /\ \A n \in 1..(j - 1) : ~StartsWith(topic, StatusPrefixes[n])
    ELSE 0

\* C23: handling a message makes the indicator of the first tracked
\* prefix the topic starts with healthy and restarts the timer of that
\* prefix; the indicators and timers of every other prefix, and of every
\* prefix when the topic starts with none, stay as they are; the message is
\* handed to the handler declared for its topic in either case.
C23_FirstMatchOnly ==
    [][handler'[1] = "on_message" =>
         LET topic == handler'[2]
             i == FirstTracked(topic)
         IN  /\ (\A n \in Tracked : since'[n] <= since[n]
                                     /\ Len(qtimers'[n]) >= Len(qtimers[n]))
                 =>
                 /\ \A j \in Tracked \ {i} :
                       /\ health'[j] = health[j]
                       /\ topic_timer'[j] = topic_timer[j]
                       /\ qtimers'[j] = qtimers[j]
                 /\ i # 0 =>
                       /\ health'[i]
                       /\ topic_timer'[i] = Started(WatchdogMs)
                       /\ qtimers'[i] = <<Started(WatchdogMs).left>>
                 /\ dispatched' = TopicCallback(topic)
                 /\ TopicCallback(topic) = "none" => display' = display
      ]_vars

\* a message of a topic that starts with no tracked prefix was handled
\* while two indicators were healthy and one timer had expired
C23_Witness ==
    /\ handler = <<"on_message", TopicLaser>>
    /\ health[1] /\ since[1] = 1
    /\ health[3] /\ since[3] = 0
    /\ heard[2] /\ ~health[2]

(***************************************************************************)
(* Further properties of the autonomy panel (checked under SpecAutonomy).  *)
(***************************************************************************)
\* what 'enable all drops' or 'disable all drops' does: for building 0, 1,
\* 2, 3, 4, 5 in this order one publish on the topic and then one update
\* of the label of that building
AllBuildings(topic, text) ==
    [k \in 1..(2 * 6) |->
        IF k % 2 = 1 THEN Publish(topic, <<"building", (k - 1) \div 2>>)
        ELSE SetText((k - 2) \div 2, text)]

\* C24: 'enable all drops' (resp. 'disable all drops') publishes exactly
\* six building enable (resp. disable) messages, for building 0 to 5 in
\* ascending order, the label of a building being updated after its own
\* publish and before the publish of the next building; afterwards all six
\* labels show the enabled (resp. disabled) state.
C24_AllDropsInOrder ==
    /\ handler = <<"enable_building_drop_all">> =>
          /\ events = AllBuildings("avr/autonomous/building/enable",
                                   DropEnabled)
          /\ Len(Published(events)) = 6
          /\ \A i \in 0..5 : autonomy.building_labels[i] = DropEnabled
    /\ handler = <<"disable_building_drop_all">> =>
          /\ events = AllBuildings("avr/autonomous/building/disable",
                                   DropDisabled)
          /\ Len(Published(events)) = 6
          /\ \A i \in 0..5 : autonomy.building_labels[i] = DropDisabled

\* all drops were enabled in one go while autonomous mode was set
C24_Witness ==
    /\ handler = <<"enable_building_drop_all">>
    /\ Len(events) = 12
    /\ events[11] = Publish("avr/autonomous/building/enable",
                            <<"building", 5>>)
    /\ autonomy.building_labels[5] = DropEnabled
    /\ autonomy.autonomous_label # Blank

(***************************************************************************)
(* Further properties of the on-screen joystick (checked under             *)
(* SpecJoystick).                                                          *)
(***************************************************************************)
\* n bounded to lo..hi
Bounded(n, lo, hi) == IF n < lo THEN lo ELSE IF n > hi THEN hi ELSE n

\* the setting joystick_inverted as the store reads it
JoystickInverted == PropertyGet(disk, "joystick_inverted").value[2]

\* C25: after a mouse move made while the handle is grabbed, the absolute
\* position of the handle is the mouse position bounded to the box
\* [50, 250] x [50, 250] and the relative position lies in
\* [0, 200] x [0, 200]: relative X is absolute X - 50, relative Y is
\* absolute Y - 50 without inversion and 200 minus that with inversion.
C25_GrabbedMoveBounded ==
    (handler[1] = "mouseMoveEvent" /\ joystick.joystick_grabbed)
    => LET pos == handler[2]
           abs == joystick.joystick_center_abs
           rel == joystick.joystick_center_rel
       IN  /\ abs = <<Bounded(pos[1], 50, 250), Bounded(pos[2], 50, 250)>>
           /\ abs[1] \in 50..250 /\ abs[2] \in 50..250
           /\ rel[1] = Num(abs[1] - 50)
           /\ rel[2] = IF JoystickInverted THEN Num(200 - (abs[2] - 50))
                                            ELSE Num(abs[2] - 50)
           /\ \A k \in 1..2 : Le(Num(0), rel[k]) /\ Le(rel[k], Num(200))

\* the grabbed handle was dragged out of the widget at the lower left with
\* inversion enabled
C25_Witness ==
    /\ handler = <<"mouseMoveEvent", <<-10, 310>>>>
    /\ joystick.joystick_grabbed
    /\ JoystickInverted
    /\ joystick.joystick_center_abs = <<50, 250>>
    /\ joystick.joystick_center_rel = <<Num(0), Num(0)>>

\* C29: a mouse move while the handle is not grabbed publishes no servo
\* message and leaves the relative position of the joystick as it was, so
\* that servo messages are published only by a move of the grabbed handle.
C29_NoServoUnlessGrabbed ==
    [][/\ (handler'[1] = "mouseMoveEvent" /\ ~joystick.joystick_grabbed) =>
            /\ events' = <<>>
            /\ joystick'.joystick_center_rel = joystick.joystick_center_rel
       /\ Published(events') # <<>> =>
            (handler'[1] = "mouseMoveEvent" /\ joystick.joystick_grabbed)
      ]_vars

(***************************************************************************)
(* Properties of the gamepad manager (checked under SpecGamepad and        *)
(* SpecGamepadLive).                                                       *)
(***************************************************************************)
\* C26: after a poll cycle the three caches describe exactly the devices
\* of its enumeration: a device that was detached before the cycle is in
\* none of them.
C26_CachesRebuilt ==
    handler[1] = "update_joysticks" =>
       /\ gamepad.joystick_name_to_guid =
             {<<get_name(d), get_guid(d)>> : d \in gamepad.polled}
       /\ gamepad.joystick_guid_to_name =
             {<<get_guid(d), get_name(d)>> : d \in gamepad.polled}
       /\ KeysOf(gamepad.joystick_guid_to_axes) =
             {get_guid(d) : d \in gamepad.polled}

\* C27: every thread a timer tick starts eventually ends, so that the
\* threads alive at the same time do not pile up.
C27_PassesComplete ==
    \A t \in 1..MaxThreads :
       (t \in gamepad.threads) ~> (t \notin gamepad.threads)

(***************************************************************************)
(* The panel and the client once every event is delivered (checked under   *)
(* Spec).                                                                  *)
(***************************************************************************)
\* no queued signal is left and no slot is running
Quiescent == queue = <<>> /\ stack = <<>>

\* C28: once all queued events have been delivered the panel shows
\* connected exactly when the background client is running.
C28_PanelFollowsClient ==
    Quiescent => (panel.state = "connected" <=> client.running)

(***************************************************************************)
(* The range of the thermal view (checked under SpecThermal).              *)
(***************************************************************************)
\* C30: in every state of the thermal view MINTEMP is below MAXTEMP.
C30_RangeOrdered == Lt(thermal.MINTEMP, thermal.MAXTEMP)

====
